---- MODULE Spec2Model ----
(***************************************************************************)
(* A model of the in-memory filesystem of mh-orange/vfs (src/mem.go, the   *)
(* inode/block version of lines 819-1573) and of the utilities of          *)
(* src/util.go that are built on it.                                       *)
(*                                                                         *)
(* Go values are represented as follows.                                   *)
(*   string, []byte   a sequence of bytes (0..255); "/a" is <<47, 97>>     *)
(*   os.FileMode      a record of the bits the code looks at:              *)
(*                    [dir, symlink, perm]                                 *)
(*   *memInode        the inode's index in memfs.inodes (slots are never   *)
(*                    removed from the table, so index = identity)         *)
(*   error            the name of the innermost error value, "nil" for nil *)
(*   a run-time panic the field panic of the machine record; the process   *)
(*                    is gone once it is set                               *)
(* Sequences are 1-based: inode n is inodes[n+1], block b is blocks[b+1].  *)
(* modTime is left out: no operation reads it.                             *)
(***************************************************************************)
EXTENDS Integers, Sequences, FiniteSets, TLC

blocksize == 1024

\* io.Copy's buffer
CopyBuf == 32768

\* ioutil.ReadAll's read size (bytes.MinRead)
MinRead == 512

\* a decoded int64 of 2^24 or more is kept as this value: it is beyond every
\* size and index of the model, and below the range where make() fails
Big == 256 * 65536

\* the value v under the name F gives it
Bind(v, F(_)) == F(v)

Min(a, b) == IF a < b THEN a ELSE b
Take(s, n) == SubSeq(s, 1, n)
Drop(s, n) == SubSeq(s, n + 1, Len(s))

ZeroBlock == [i \in 1..blocksize |-> 0]

Slash == 47
Dot == 46

(***************************************************************************)
(* strings and path                                                        *)
(***************************************************************************)
HasPrefix(s, c) == Len(s) > 0 /\ s[1] = c
HasSuffix(s, c) == Len(s) > 0 /\ s[Len(s)] = c
TrimPrefix(s, c) == IF HasPrefix(s, c) THEN Tail(s) ELSE s
TrimSuffix(s, c) == IF HasSuffix(s, c) THEN Take(s, Len(s) - 1) ELSE s

\* strings.LastIndex(s, "/"), 1-based, 0 when there is none
LastIndex(s, c) ==
    IF \E i \in 1..Len(s) : s[i] = c
    THEN CHOOSE i \in 1..Len(s) : s[i] = c /\ \A j \in (i+1)..Len(s) : s[j] # c
    ELSE 0

\* strings.Index(s, "/"), 1-based, 0 when there is none
Index(s, c) ==
    IF \E i \in 1..Len(s) : s[i] = c
    THEN CHOOSE i \in 1..Len(s) : s[i] = c /\ \A j \in 1..(i-1) : s[j] # c
    ELSE 0

\* strings.Split(s, "/")
RECURSIVE StrSplit(_, _)
StrSplit(s, c) ==
    LET i == Index(s, c) IN
    IF i = 0 THEN <<s>> ELSE <<Take(s, i - 1)>> \o StrSplit(Drop(s, i), c)

RECURSIVE StrJoin(_, _)
StrJoin(parts, c) ==
    IF Len(parts) = 0 THEN <<>>
    ELSE IF Len(parts) = 1 THEN parts[1]
    ELSE parts[1] \o <<c>> \o StrJoin(Tail(parts), c)

\* path.Split
PathSplit(p) ==
    LET i == LastIndex(p, Slash) IN [dir |-> Take(p, i), file |-> Drop(p, i)]

\* the components path.Clean keeps
RECURSIVE CleanStack(_, _, _)
CleanStack(comps, stack, rooted) ==
    IF Len(comps) = 0 THEN stack
    ELSE LET c == Head(comps) IN
         IF c = <<>> \/ c = <<Dot>> THEN CleanStack(Tail(comps), stack, rooted)
         ELSE IF c = <<Dot, Dot>>
         THEN IF Len(stack) > 0 /\ stack[Len(stack)] # <<Dot, Dot>>
              THEN CleanStack(Tail(comps), Take(stack, Len(stack) - 1), rooted)
              ELSE IF ~rooted THEN CleanStack(Tail(comps), Append(stack, c), rooted)
              ELSE CleanStack(Tail(comps), stack, rooted)
         ELSE CleanStack(Tail(comps), Append(stack, c), rooted)

\* path.Clean
Clean(p) ==
    IF p = <<>> THEN <<Dot>>
    ELSE Bind(StrJoin(CleanStack(StrSplit(p, Slash), <<>>, p[1] = Slash), Slash),
              LAMBDA body :
         LET out == IF p[1] = Slash THEN <<Slash>> \o body ELSE body
         IN IF out = <<>> THEN <<Dot>> ELSE out)

\* path.Dir
PathDir(p) == Clean(PathSplit(p).dir)

RECURSIVE StripSlashes(_)
StripSlashes(p) ==
    IF Len(p) > 0 /\ p[Len(p)] = Slash THEN StripSlashes(Take(p, Len(p) - 1)) ELSE p

\* path.Base
PathBase(p) ==
    IF p = <<>> THEN <<Dot>>
    ELSE Bind(StripSlashes(p), LAMBDA s :
         LET t == Drop(s, LastIndex(s, Slash))
         IN IF t = <<>> THEN <<Slash>> ELSE t)

\* path.Join of two elements
PathJoin(a, b) ==
    IF a = <<>> /\ b = <<>> THEN <<>>
    ELSE IF a = <<>> THEN Clean(b)
    ELSE IF b = <<>> THEN Clean(a)
    ELSE Clean(a \o <<Slash>> \o b)

(***************************************************************************)
(* encoding/binary, big endian int64                                       *)
(***************************************************************************)
Encode64(n) ==
    IF n < 0 THEN [i \in 1..8 |-> 255]
    ELSE <<0, 0, 0, 0, (n \div Big) % 256, (n \div 65536) % 256, (n \div 256) % 256, n % 256>>

\* -1 stands for every value that is negative or at least 2^32
Decode64(bs) ==
    IF \A i \in 1..4 : bs[i] = 0
    THEN IF bs[5] = 0 THEN bs[6] * 65536 + bs[7] * 256 + bs[8] ELSE Big
    ELSE -1

(***************************************************************************)
(* The machine: the memfs object and the calls made on its notifier.       *)
(*   inodes, freeInodes, freeBlocks, blocks   the fields of memfs          *)
(*   watchers   the entries [inode, w, path] of memfs.watchers, one for     *)
(*              each inode and watcher                                     *)
(*   chans      watcher -> its event channel [q, closed, cap] and the      *)
(*              paths of the memWatcher                                    *)
(*   notes      the notify calls of the operation in progress              *)
(*   panic      a run-time panic was raised                                *)
(***************************************************************************)
ModeDir == [dir |-> TRUE, symlink |-> FALSE, perm |-> 0]
ModeZero == [dir |-> FALSE, symlink |-> FALSE, perm |-> 0]
Perm(p) == [dir |-> FALSE, symlink |-> FALSE, perm |-> p]
DirPerm(p) == [dir |-> TRUE, symlink |-> FALSE, perm |-> p]

NewInode(n, mode) ==
    [num |-> n, parent |-> 0, size |-> 0, mode |-> mode, link |-> <<>>, blocks |-> <<>>]

NewMemFs ==
    [inodes |-> <<NewInode(0, ModeDir)>>,
     freeInodes |-> <<>>,
     freeBlocks |-> <<>>,
     blocks |-> <<>>,
     watchers |-> {},
     chans |-> <<>>,
     notes |-> <<>>,
     panic |-> FALSE]

Panic(m) == [m EXCEPT !.panic = TRUE]

InodeOK(m, n) == n >= 0 /\ n < Len(m.inodes)
Ino(m, n) == m.inodes[n + 1]
IsDir(m, n) == Ino(m, n).mode.dir

\* cap(chan) of the event channel the tests give a watcher
ChanCap == 10

\* memfs.notify that gives up at the first watcher whose channel is full
notifyUntilFull(m, t, inode, name) ==
    LET subs == {e \in m.watchers : e.inode = inode}
        full(w) == Len(m.chans[w].q) >= m.chans[w].cap
        send(w, c) ==
            IF (\E e \in subs : e.w = w) /\ ~\E e \in subs : e.w <= w /\ full(e.w)
            THEN LET e == CHOOSE x \in subs : x.w = w IN
                 [c EXCEPT !.q = Append(@, [Type |-> t, Path |-> PathJoin(e.path, name)])]
            ELSE c
    IN [m EXCEPT !.chans = [w \in DOMAIN m.chans |-> send(w, m.chans[w])],
                 !.notes = Append(@, [Type |-> t, inode |-> inode, name |-> name])]

\* memfs.notify: a non-blocking send to every watcher registered under the
\* inode; a send on a closed channel panics
notify(m, t, inode, name) ==
    LET subs == {e \in m.watchers : e.inode = inode}
        send(w, c) ==
            IF \E e \in subs : e.w = w
            THEN LET e == CHOOSE x \in subs : x.w = w IN
                 IF Len(c.q) < c.cap
                 THEN [c EXCEPT !.q = Append(@, [Type |-> t, Path |-> PathJoin(e.path, name)])]
                 ELSE c
            ELSE c
        m1 == [m EXCEPT !.chans = [w \in DOMAIN m.chans |-> send(w, m.chans[w])],
                        !.notes = Append(@, [Type |-> t, inode |-> inode, name |-> name])]
    IN IF \E e \in subs : m.chans[e.w].closed THEN Panic(m1) ELSE m1

\* memfs.free
free(m, bs) == [m EXCEPT !.freeBlocks = @ \o bs]

\* memfs.alloc taking the index freed last
allocLast(m) ==
    IF Len(m.freeBlocks) > 0
    THEN [m |-> [m EXCEPT !.freeBlocks = Take(@, Len(@) - 1)],
          block |-> m.freeBlocks[Len(m.freeBlocks)]]
    ELSE [m |-> [m EXCEPT !.blocks = Append(@, ZeroBlock)], block |-> Len(m.blocks)]

\* memfs.alloc
alloc(m) ==
    IF Len(m.freeBlocks) > 0
    THEN [m |-> [m EXCEPT !.freeBlocks = Tail(@)], block |-> Head(m.freeBlocks)]
    ELSE [m |-> [m EXCEPT !.blocks = Append(@, ZeroBlock)], block |-> Len(m.blocks)]

\* memfs.freeInode leaving the inode its block list
freeInodeKeep(m, n) ==
    IF ~InodeOK(m, n) THEN Panic(m)
    ELSE [m EXCEPT !.freeBlocks = @ \o Ino(m, n).blocks,
                   !.inodes[n + 1].mode = ModeZero,
                   !.inodes[n + 1].size = 0,
                   !.freeInodes = Append(@, n)]

\* memfs.freeInode
freeInode(m, n) ==
    IF ~InodeOK(m, n) THEN Panic(m)
    ELSE [m EXCEPT !.freeBlocks = @ \o Ino(m, n).blocks,
                   !.inodes[n + 1] = NewInode(Ino(m, n).num, ModeZero),
                   !.freeInodes = Append(@, n)]

(***************************************************************************)
(* memInode                                                                *)
(***************************************************************************)
\* Go's / and % truncate toward zero
GoDiv(a, b) == IF a >= 0 THEN a \div b ELSE -((-a) \div b)
GoMod(a, b) == a - b * GoDiv(a, b)

\* memInode.trunc
inodeTrunc(m, n, size) ==
    LET k == GoDiv(size, blocksize) + (IF GoMod(size, blocksize) > 0 THEN 1 ELSE 0)
        ino == Ino(m, n)
    IN IF k < 0 \/ k > Len(ino.blocks) THEN Panic(m)
       ELSE [free(m, Drop(ino.blocks, k)) EXCEPT
                !.inodes[n + 1].size = size,
                !.inodes[n + 1].blocks = Take(ino.blocks, k)]

\* memInode.readBlock: the bytes copied into a buffer of plen bytes
readBlock(m, n, block, offset, plen) ==
    LET ino == Ino(m, n) IN
    IF block * blocksize + offset < ino.size
    THEN IF block >= Len(ino.blocks) \/ ino.blocks[block + 1] >= Len(m.blocks)
         THEN [data |-> <<>>, err |-> "nil", panic |-> TRUE]
         ELSE LET b == m.blocks[ino.blocks[block + 1] + 1]
                  hi == IF ino.size < (block + 1) * blocksize
                        THEN ino.size - block * blocksize ELSE blocksize
              IN [data |-> SubSeq(b, offset + 1, Min(hi, offset + plen)),
                  err |-> "nil", panic |-> FALSE]
    ELSE [data |-> <<>>, err |-> "EOF", panic |-> FALSE]

\* the allocation loop of memInode.writeBlock
RECURSIVE growBlocks(_, _)
growBlocks(m, n) ==
    IF Ino(m, n).size < blocksize * Len(Ino(m, n).blocks) THEN m
    ELSE Bind(alloc(m), LAMBDA a :
         growBlocks([a.m EXCEPT !.inodes[n + 1].blocks = Append(@, a.block)], n))

\* memInode.writeBlock
writeBlock(m, n, block, offset, p) ==
    Bind(growBlocks(m, n), LAMBDA g :
    LET ino == Ino(g, n) IN
    IF block >= Len(ino.blocks) \/ ino.blocks[block + 1] >= Len(g.blocks)
    THEN [m |-> Panic(g), n |-> 0]
    ELSE LET b == ino.blocks[block + 1] + 1
             cnt == Min(Len(p), blocksize - offset)
             old == g.blocks[b]
         IN [m |-> [g EXCEPT !.blocks[b] = Take(old, offset) \o Take(p, cnt)
                                             \o Drop(old, offset + cnt),
                             !.inodes[n + 1].size = @ + cnt],
             n |-> cnt])

(***************************************************************************)
(* memFile: a handle [inode, offset, readOnly, writeOnly, closed, name]    *)
(***************************************************************************)
NewFile(inode) ==
    [inode |-> inode, offset |-> 0, readOnly |-> FALSE, writeOnly |-> FALSE,
     closed |-> FALSE, name |-> <<>>]

SeekStart == 0
SeekCurrent == 1
SeekEnd == 2

\* memFile.Seek
Seek(m, f, offset, whence) ==
    LET known == whence \in {SeekStart, SeekCurrent, SeekEnd}
        off == IF whence = SeekCurrent THEN f.offset + offset
               ELSE IF whence = SeekEnd THEN Ino(m, f.inode).size + offset
               ELSE offset
        f1 == IF off >= 0 THEN [f EXCEPT !.offset = off] ELSE f
    IN [f |-> f1, end |-> f1.offset,
        err |-> IF off < 0 THEN "ErrInvalidSeek"
                ELSE IF ~known THEN "ErrWhence" ELSE "nil"]

\* the loop of memFile.Read; n is the part of the buffer still to fill
RECURSIVE ReadLoop(_, _, _, _)
ReadLoop(m, f, n, acc) ==
    IF n <= 0 THEN [f |-> f, data |-> acc, err |-> "nil", panic |-> FALSE]
    ELSE LET block == f.offset \div blocksize
             offset == f.offset - block * blocksize
         IN
         Bind(readBlock(m, f.inode, block, offset, n), LAMBDA rb :
         LET f1 == [f EXCEPT !.offset = @ + Len(rb.data)] IN
         IF rb.panic \/ rb.err # "nil"
         THEN [f |-> f1, data |-> acc \o rb.data, err |-> rb.err, panic |-> rb.panic]
         ELSE ReadLoop(m, f1, n - Len(rb.data), acc \o rb.data))

\* memFile.Read without the test of writeOnly
ReadAny(m, f, plen) == ReadLoop(m, f, plen, <<>>)

\* memFile.Read into a buffer of plen bytes
Read(m, f, plen) ==
    IF f.writeOnly
    THEN [f |-> f, data |-> <<>>, err |-> "ErrWriteOnly", panic |-> FALSE]
    ELSE ReadLoop(m, f, plen, <<>>)

\* the loop of memFile.Write
RECURSIVE WriteLoop(_, _, _, _)
WriteLoop(m, f, p, n) ==
    IF Len(p) = 0 \/ m.panic THEN [m |-> m, f |-> f, n |-> n]
    ELSE LET block == f.offset \div blocksize
             offset == IF f.offset < (block + 1) * blocksize
                       THEN f.offset - block * blocksize ELSE 0
         IN
         Bind(writeBlock(m, f.inode, block, offset, p), LAMBDA w :
         WriteLoop(w.m, [f EXCEPT !.offset = @ + w.n], Drop(p, w.n), n + w.n))

\* memFile.Write
Write(m, f, p) ==
    IF f.readOnly THEN [m |-> m, f |-> f, n |-> 0, err |-> "ErrReadOnly"]
    ELSE Bind(WriteLoop(m, f, p, 0), LAMBDA w :
         [m |-> IF ~w.m.panic /\ ~IsDir(w.m, f.inode)
                THEN notify(w.m, "Modify", Ino(w.m, f.inode).parent, f.name)
                ELSE w.m,
          f |-> w.f, n |-> w.n, err |-> "nil"])

\* memFile.trunc
fileTrunc(m, f, size) ==
    IF f.readOnly THEN [m |-> m, err |-> "ErrReadOnly"]
    ELSE [m |-> inodeTrunc(m, f.inode, size),
          err |-> IF size < 0 \/ size > Ino(m, f.inode).size THEN "ErrSize" ELSE "nil"]

\* memFile.Close
Close(f) ==
    IF f.closed THEN [f |-> f, err |-> "ErrClosed"]
    ELSE [f |-> [f EXCEPT !.closed = TRUE], err |-> "nil"]

\* io.ReadFull on a memFile: io.ReadAtLeast with min = len(buf)
RECURSIVE ReadAtLeast(_, _, _, _)
ReadAtLeast(m, f, min, acc) ==
    IF Len(acc) >= min THEN [f |-> f, data |-> acc, err |-> "nil", panic |-> FALSE]
    ELSE Bind(Read(m, f, min - Len(acc)), LAMBDA r :
         LET got == acc \o r.data IN
         IF r.panic THEN [f |-> r.f, data |-> got, err |-> "nil", panic |-> TRUE]
         ELSE IF r.err = "nil" THEN ReadAtLeast(m, r.f, min, got)
         ELSE [f |-> r.f, data |-> got, panic |-> FALSE,
               err |-> IF Len(got) >= min THEN "nil"
                       ELSE IF Len(got) > 0 /\ r.err = "EOF" THEN "ErrUnexpectedEOF"
                       ELSE r.err])

ReadFull(m, f, len) == ReadAtLeast(m, f, len, <<>>)

\* what io.Copy does with the bytes of one Read
RECURSIVE ioCopy(_, _, _)
ioCopyWrite(m, writer, r) ==
    Bind(IF Len(r.data) > 0 THEN Write(m, writer, r.data)
         ELSE [m |-> m, f |-> writer, n |-> 0, err |-> "nil"], LAMBDA w :
    IF w.m.panic THEN [m |-> w.m, writer |-> w.f, err |-> "nil"]
    ELSE IF w.err # "nil" THEN [m |-> w.m, writer |-> w.f, err |-> w.err]
    ELSE IF w.n # Len(r.data) THEN [m |-> w.m, writer |-> w.f, err |-> "ErrShortWrite"]
    ELSE IF r.err # "nil"
    THEN [m |-> w.m, writer |-> w.f, err |-> IF r.err = "EOF" THEN "nil" ELSE r.err]
    ELSE ioCopy(w.m, w.f, r.f))

\* io.Copy(writer, reader) between two memFiles
ioCopy(m, writer, reader) ==
    Bind(Read(m, reader, CopyBuf), LAMBDA r :
    IF r.panic THEN [m |-> Panic(m), writer |-> writer, err |-> "nil"]
    ELSE ioCopyWrite(m, writer, r))

(***************************************************************************)
(* dirent [inode, name] and memDir; a memDir is its memFile                *)
(***************************************************************************)
\* the name of dirent.read: the error of its ReadFull is dropped (shadowed err)
direntReadName(m, f, inode, length) ==
    Bind(ReadFull(m, f, length), LAMBDA r3 :
    [f |-> r3.f,
     ent |-> [inode |-> inode, name |-> IF r3.err = "nil" THEN r3.data ELSE <<>>],
     err |-> "nil", panic |-> r3.panic])

\* dirent.read
direntRead(m, f) ==
    Bind(ReadFull(m, f, 8), LAMBDA r1 :
    IF r1.panic \/ r1.err # "nil"
    THEN [f |-> r1.f, ent |-> [inode |-> 0, name |-> <<>>], err |-> r1.err, panic |-> r1.panic]
    ELSE Bind(ReadFull(m, r1.f, 8), LAMBDA r2 :
         LET inode == Decode64(r1.data) IN
         IF r2.panic \/ r2.err # "nil"
         THEN [f |-> r2.f, ent |-> [inode |-> inode, name |-> <<>>],
               err |-> r2.err, panic |-> r2.panic]
         ELSE IF Decode64(r2.data) < 0
         THEN [f |-> r2.f, ent |-> [inode |-> inode, name |-> <<>>],
               err |-> "nil", panic |-> TRUE]
         ELSE direntReadName(m, r2.f, inode, Decode64(r2.data))))

\* dirent.write
direntWrite(m, f, ent) ==
    Bind(Write(m, f, Encode64(ent.inode)), LAMBDA w1 :
    IF w1.err # "nil" \/ w1.m.panic THEN w1
    ELSE Bind(Write(w1.m, w1.f, Encode64(Len(ent.name))), LAMBDA w2 :
         IF w2.err # "nil" \/ w2.m.panic THEN w2
         ELSE Write(w2.m, w2.f, ent.name)))

\* dirent.size
direntSize(ent) == 16 + Len(ent.name)

\* memDir.next
next(m, f) == direntRead(m, f)

\* memDir.findEntry
RECURSIVE findEntry(_, _, _)
findEntry(m, f, name) ==
    Bind(next(m, f), LAMBDA r :
    IF r.panic \/ r.err # "nil" \/ r.ent.name = name THEN r
    ELSE findEntry(m, r.f, name))

\* memDir.find
dirFind(m, f, name) ==
    Bind(findEntry(m, f, name), LAMBDA r :
    [inode |-> IF r.err = "nil" THEN r.ent.inode ELSE 0, err |-> r.err, panic |-> r.panic])

\* memDir.append
dirAppend(m, f, inode, filename) ==
    Bind(Seek(m, f, 0, SeekEnd), LAMBDA s1 :
    Bind(IF s1.err = "nil" THEN direntWrite(m, s1.f, [inode |-> inode, name |-> filename])
         ELSE [m |-> m, f |-> s1.f, n |-> 0, err |-> s1.err], LAMBDA w :
    Bind(IF w.err = "nil" THEN Seek(w.m, w.f, f.offset, SeekStart)
         ELSE [f |-> w.f, end |-> 0, err |-> w.err], LAMBDA s2 :
    IF w.m.panic THEN [m |-> w.m, f |-> w.f, err |-> "nil"]
    ELSE [m |-> notify(w.m, "Create", f.inode, filename), f |-> s2.f, err |-> s2.err])))

\* memDir.unlink once the entry is found: the rest of the directory is copied
\* over the entry and the directory is cut by the size of the entry
unlinkEntry(m, f, fe) ==
    Bind(Seek(m, fe.f, -direntSize(fe.ent), SeekCurrent), LAMBDA sk :
    IF sk.err # "nil" THEN [m |-> m, f |-> sk.f, ent |-> fe.ent, err |-> sk.err]
    ELSE Bind(ioCopy(m, sk.f, [NewFile(f.inode) EXCEPT !.offset = fe.f.offset]), LAMBDA cp :
         IF cp.m.panic \/ cp.err # "nil"
         THEN [m |-> cp.m, f |-> cp.writer, ent |-> fe.ent, err |-> cp.err]
         ELSE [m |-> fileTrunc(cp.m, cp.writer,
                               Ino(cp.m, f.inode).size - direntSize(fe.ent)).m,
               f |-> cp.writer, ent |-> fe.ent, err |-> "nil"]))

\* memDir.unlink
unlink(m, f, filename) ==
    Bind(findEntry(m, f, filename), LAMBDA fe :
    IF fe.panic THEN [m |-> Panic(m), f |-> fe.f, ent |-> fe.ent, err |-> "nil"]
    ELSE IF fe.err # "nil" THEN [m |-> m, f |-> fe.f, ent |-> fe.ent, err |-> fe.err]
    ELSE unlinkEntry(m, f, fe))

\* memDir.remove
dirRemove(m, f, filename) ==
    Bind(unlink(m, f, filename), LAMBDA u :
    IF u.err = "nil" /\ ~u.m.panic
    THEN [u EXCEPT !.m = notify(u.m, "Remove", f.inode, filename)]
    ELSE u)

\* memDir.rename
dirRename(m, f, oldname, newname) ==
    Bind(unlink(m, f, oldname), LAMBDA u :
    Bind(IF u.err = "nil" /\ ~u.m.panic THEN dirAppend(u.m, u.f, u.ent.inode, newname)
         ELSE [m |-> u.m, f |-> u.f, err |-> u.err], LAMBDA a :
    IF a.m.panic THEN a
    ELSE [a EXCEPT !.m = notify(a.m, "Rename", f.inode, oldname)]))

\* the loop of memDir.Readdir; an entry of the result is the name and the
\* number of the inode that fs.inode returns
RECURSIVE ReaddirLoop(_, _, _, _)
ReaddirLoop(m, f, n, entries) ==
    IF n > 0 THEN [f |-> f, entries |-> entries, err |-> "nil", n |-> n, panic |-> FALSE]
    ELSE Bind(next(m, f), LAMBDA r :
         IF r.panic \/ (r.err = "nil" /\ ~InodeOK(m, r.ent.inode))
         THEN [f |-> r.f, entries |-> entries, err |-> "nil", n |-> n, panic |-> TRUE]
         ELSE IF r.err # "nil"
         THEN [f |-> r.f, entries |-> entries, err |-> r.err, n |-> n, panic |-> FALSE]
         ELSE ReaddirLoop(m, r.f, IF n # -1 THEN n - 1 ELSE n,
                          Append(entries, [name |-> r.ent.name, inode |-> r.ent.inode])))

\* memDir.Readdir
Readdir(m, f, n) ==
    Bind(ReaddirLoop(m, f, n, <<>>), LAMBDA r :
    [f |-> r.f, entries |-> r.entries, panic |-> r.panic,
     err |-> IF r.n = -1 /\ r.err = "EOF" THEN "nil" ELSE r.err])

\* memDir.Readdirnames
Readdirnames(m, f, n) ==
    Bind(Readdir(m, f, n), LAMBDA r :
    [f |-> r.f, panic |-> r.panic, err |-> r.err,
     names |-> IF r.err = "nil" THEN [i \in DOMAIN r.entries |-> r.entries[i].name]
               ELSE <<>>])

(***************************************************************************)
(* OpenFlag                                                                *)
(***************************************************************************)
RdOnlyFlag == 0
WrOnlyFlag == 1
RdWrFlag == 2
CreateFlag == 64
ExclFlag == 128
TruncFlag == 512
AppendFlag == 1024

\* OpenFlag.has; every flag but RdOnlyFlag is a single bit
has(of, flag) == IF flag = 0 THEN of = 0 ELSE (of \div flag) % 2 = 1

\* OpenFlag.check without ExclFlag among the flags that need a write mode
checkNoExcl(of) ==
    IF has(of, WrOnlyFlag) /\ has(of, RdWrFlag) THEN "ErrInvalidFlags"
    ELSE IF of # 0
            /\ (has(of, AppendFlag) \/ has(of, CreateFlag) \/ has(of, TruncFlag))
            /\ ~has(of, WrOnlyFlag) /\ ~has(of, RdWrFlag)
    THEN "ErrInvalidFlags"
    ELSE "nil"

\* OpenFlag.check
check(of) ==
    IF has(of, WrOnlyFlag) /\ has(of, RdWrFlag) THEN "ErrInvalidFlags"
    ELSE IF of # 0
            /\ (has(of, AppendFlag) \/ has(of, CreateFlag) \/ has(of, TruncFlag)
                    \/ has(of, ExclFlag))
            /\ ~has(of, WrOnlyFlag) /\ ~has(of, RdWrFlag)
    THEN "ErrInvalidFlags"
    ELSE "nil"

(***************************************************************************)
(* memfs                                                                   *)
(***************************************************************************)
\* the loop of memfs.find over the names of the path
RECURSIVE findWalk(_, _, _, _, _)
findWalk(m, names, i, inode, err) ==
    IF i > Len(names) THEN [inode |-> inode, err |-> err, panic |-> FALSE]
    ELSE IF IsDir(m, inode)
    THEN Bind(dirFind(m, NewFile(inode), names[i]), LAMBDA r :
         IF r.panic THEN [inode |-> inode, err |-> "nil", panic |-> TRUE]
         ELSE IF r.err # "nil" THEN [inode |-> inode, err |-> r.err, panic |-> FALSE]
         ELSE IF ~InodeOK(m, r.inode) THEN [inode |-> inode, err |-> "nil", panic |-> TRUE]
         ELSE findWalk(m, names, i + 1, r.inode, "nil"))
    ELSE findWalk(m, names, i + 1, inode, "ErrNotDir")

\* memfs.find
find(m, filename) ==
    LET fn == TrimSuffix(TrimPrefix(filename, Slash), Slash) IN
    IF Len(fn) = 0 THEN [inode |-> 0, err |-> "nil", panic |-> FALSE]
    ELSE Bind(findWalk(m, StrSplit(fn, Slash), 1, 0, "nil"), LAMBDA r :
         [r EXCEPT !.err = IF @ = "EOF" THEN "ErrNotExist" ELSE @])

\* memfs.Chmod
Chmod(m, filename, mode) ==
    Bind(find(m, filename), LAMBDA r :
    IF r.panic THEN [m |-> Panic(m), err |-> "nil"]
    ELSE IF r.err = "nil"
    THEN [m |-> [m EXCEPT !.inodes[r.inode + 1].mode = mode], err |-> "nil"]
    ELSE [m |-> m, err |-> r.err])

\* memfs.create up to dir.append: an inode is taken from the free list or
\* added to the table under the lock of the filesystem, and given its parent
createInode(m, parent, perm) ==
    LET reuse == Len(m.freeInodes) > 0
        n == IF reuse THEN Head(m.freeInodes) ELSE Len(m.inodes)
        m1 == IF reuse
              THEN [m EXCEPT !.freeInodes = Tail(@), !.inodes[n + 1].mode = perm]
              ELSE [m EXCEPT !.inodes = Append(@, NewInode(n, perm))]
    IN [m |-> [m1 EXCEPT !.inodes[n + 1].parent = parent], inode |-> n]

\* memfs.create
create(m, name, parent, perm) ==
    Bind(createInode(m, parent, perm), LAMBDA c :
    [m |-> dirAppend(c.m, NewFile(parent), c.inode, name).m, inode |-> c.inode,
     file |-> NewFile(c.inode)])

\* memFile.flags
flags(m, f, flag) ==
    IF IsDir(m, f.inode)
    THEN [m |-> m, f |-> f,
          err |-> IF has(flag, WrOnlyFlag) \/ has(flag, RdWrFlag) \/ has(flag, AppendFlag)
                     \/ has(flag, CreateFlag) \/ has(flag, TruncFlag)
                  THEN "ErrIsDir" ELSE "nil"]
    ELSE LET f1 == IF has(flag, RdOnlyFlag) THEN [f EXCEPT !.readOnly = TRUE]
                   ELSE IF has(flag, WrOnlyFlag) THEN [f EXCEPT !.writeOnly = TRUE]
                   ELSE f
         IN
         Bind(IF has(flag, TruncFlag) THEN inodeTrunc(m, f.inode, 0) ELSE m, LAMBDA m1 :
         Bind(IF has(flag, AppendFlag) THEN Seek(m1, f1, 0, SeekEnd)
              ELSE [f |-> f1, end |-> 0, err |-> "nil"], LAMBDA sk :
         [m |-> m1, f |-> sk.f, err |-> sk.err]))

NoFile == [inode |-> -1, offset |-> 0, readOnly |-> FALSE, writeOnly |-> FALSE,
           closed |-> FALSE, name |-> <<>>]

\* what OpenFile returns: no File and an error, or a File
OpenFail(m, err) == [m |-> m, file |-> NoFile, isdir |-> FALSE, err |-> err]
OpenOK(m, f, filename) ==
    [m |-> m, file |-> [f EXCEPT !.name = filename], isdir |-> IsDir(m, f.inode),
     err |-> "nil"]

\* memfs.OpenFile for a name that find has found
OpenFound(m, filename, flag, inode) ==
    Bind(flags(m, NewFile(inode), flag), LAMBDA fl :
    IF fl.m.panic THEN OpenFail(fl.m, "nil")
    ELSE IF has(flag, CreateFlag) /\ has(flag, ExclFlag) THEN OpenFail(fl.m, "ErrExist")
    ELSE OpenOK(fl.m, fl.f, filename))

\* memfs.OpenFile for a name that find has not found
OpenMissing(m, filename, flag, perm) ==
    Bind(find(m, PathDir(filename)), LAMBDA pr :
    IF pr.panic THEN OpenFail(Panic(m), "nil")
    ELSE IF pr.err # "nil" THEN OpenFail(m, pr.err)
    ELSE IF ~IsDir(m, pr.inode) THEN OpenFail(m, "ErrNotDir")
    ELSE IF has(flag, CreateFlag) /\ (has(flag, RdWrFlag) \/ has(flag, WrOnlyFlag))
    THEN Bind(create(m, PathBase(filename), pr.inode, perm), LAMBDA c :
         Bind(IF c.m.panic THEN [m |-> c.m, f |-> c.file, err |-> "nil"]
              ELSE flags(c.m, c.file, flag), LAMBDA fl :
         IF fl.m.panic THEN OpenFail(fl.m, "nil") ELSE OpenOK(fl.m, fl.f, filename)))
    ELSE OpenFail(m, "ErrNotExist"))

\* memfs.OpenFile; isdir tells that the File returned is a memDir
OpenFile(m, filename0, flag, perm) ==
    LET filename == IF HasPrefix(filename0, Slash) THEN filename0
                    ELSE <<Slash>> \o filename0
    IN IF check(flag) # "nil" THEN OpenFail(m, check(flag))
       ELSE Bind(find(m, filename), LAMBDA r :
            IF r.panic THEN OpenFail(Panic(m), "nil")
            ELSE IF r.err = "nil" THEN OpenFound(m, filename, flag, r.inode)
            ELSE OpenMissing(m, filename, flag, perm))

\* memfs.Remove
Remove(m, name) ==
    Bind(find(m, PathSplit(name).dir), LAMBDA pr :
    IF pr.panic THEN [m |-> Panic(m), err |-> "nil"]
    ELSE IF pr.err # "nil" THEN [m |-> m, err |-> pr.err]
    ELSE Bind(dirRemove(m, NewFile(pr.inode), PathSplit(name).file), LAMBDA r :
         IF r.m.panic THEN [m |-> r.m, err |-> "nil"]
         ELSE [m |-> freeInode(r.m, r.ent.inode), err |-> r.err]))

\* memfs.Rename between two directories
RenameAcross(m, po, old, new) ==
    Bind(find(m, new.dir), LAMBDA pn :
    IF pn.panic THEN [m |-> Panic(m), err |-> "nil"]
    ELSE IF pn.err # "nil" THEN [m |-> m, err |-> pn.err]
    ELSE Bind(dirRemove(m, NewFile(po.inode), old.file), LAMBDA r :
         IF r.m.panic \/ r.err # "nil" THEN [m |-> r.m, err |-> r.err]
         ELSE [m |-> dirAppend(r.m, NewFile(pn.inode), r.ent.inode, new.file).m,
               err |-> "nil"]))

\* memfs.Rename; the error of the same-directory rename is not returned
Rename(m, oldpath, newpath) ==
    LET old == PathSplit(oldpath)
        new == PathSplit(newpath)
    IN Bind(find(m, old.dir), LAMBDA po :
       IF po.panic THEN [m |-> Panic(m), err |-> "nil"]
       ELSE IF po.err # "nil" THEN [m |-> m, err |-> po.err]
       ELSE IF old.dir = new.dir
       THEN [m |-> dirRename(m, NewFile(po.inode), old.file, new.file).m, err |-> "nil"]
       ELSE RenameAcross(m, po, old, new))

\* memfs.Mkdir once find has not found the name
MkdirMissing(m, name, perm) ==
    Bind(find(m, PathDir(name)), LAMBDA pr :
    IF pr.panic THEN [m |-> Panic(m), err |-> "nil"]
    ELSE IF pr.err # "nil" THEN [m |-> m, err |-> pr.err]
    ELSE IF ~IsDir(m, pr.inode) THEN [m |-> m, err |-> "ErrNotDir"]
    ELSE [m |-> create(m, PathBase(name), pr.inode, [perm EXCEPT !.dir = TRUE]).m,
          err |-> "nil"])

\* memfs.Mkdir
Mkdir(m, name0, perm) ==
    LET name == IF HasPrefix(name0, Slash) THEN name0 ELSE <<Slash>> \o name0 IN
    Bind(find(m, name), LAMBDA ex :
    IF ex.panic THEN [m |-> Panic(m), err |-> "nil"]
    ELSE IF ex.err = "nil" THEN [m |-> m, err |-> "ErrExist"]
    ELSE MkdirMissing(m, name, perm))

\* memfs.Lstat: the FileInfo is the inode itself and the base name
Lstat(m, filename) ==
    Bind(find(m, filename), LAMBDA r :
    [inode |-> r.inode, name |-> PathBase(filename), err |-> r.err, panic |-> r.panic])

\* the depth of nested calls at which Stat's recursion through symlinks is cut
\* (the code recurses without bound and exhausts the stack)
MaxLinkDepth == 3

\* a Stat that does not look at the type of the inode
StatNoFollow(m, filename) == Lstat(m, filename)

\* memfs.Stat
RECURSIVE StatRec(_, _, _)
StatRec(m, filename, depth) ==
    Bind(find(m, filename), LAMBDA r :
    IF r.panic \/ r.err # "nil" \/ ~Ino(m, r.inode).mode.symlink
    THEN [inode |-> r.inode, name |-> PathBase(filename), err |-> r.err, panic |-> r.panic]
    ELSE IF depth >= MaxLinkDepth
    THEN [inode |-> r.inode, name |-> PathBase(filename), err |-> "nil", panic |-> TRUE]
    ELSE StatRec(m, Ino(m, r.inode).link, depth + 1))

Stat(m, filename) == StatRec(m, filename, 0)

\* memfs.Watcher on a channel of capacity cap; a watcher is named by the
\* place of its channel in chans
Watcher(m, cap) ==
    [m EXCEPT !.chans = Append(@, [q |-> <<>>, closed |-> FALSE, cap |-> cap,
                                   paths |-> {}])]

\* memfs.watch
watch(m, w, path) ==
    Bind(find(m, path), LAMBDA r :
    IF r.panic THEN [m |-> Panic(m), err |-> "nil"]
    ELSE IF r.err # "nil" THEN [m |-> m, err |-> r.err]
    ELSE [m |-> [m EXCEPT !.watchers =
                    {e \in @ : ~(e.inode = r.inode /\ e.w = w)}
                        \cup {[inode |-> r.inode, w |-> w, path |-> path]}],
          err |-> "nil"])

\* memfs.removeWatch that takes away the watch registered with this very
\* spelling of the path only
removeWatchSpelling(m, w, path) ==
    Bind(find(m, path), LAMBDA r :
    IF r.panic THEN [m |-> Panic(m), err |-> "nil"]
    ELSE IF r.err # "nil" THEN [m |-> m, err |-> r.err]
    ELSE [m |-> [m EXCEPT !.watchers =
                    {e \in @ : ~(e.inode = r.inode /\ e.w = w /\ e.path = path)}],
          err |-> "nil"])

\* memfs.removeWatch
removeWatch(m, w, path) ==
    Bind(find(m, path), LAMBDA r :
    IF r.panic THEN [m |-> Panic(m), err |-> "nil"]
    ELSE IF r.err # "nil" THEN [m |-> m, err |-> r.err]
    ELSE [m |-> [m EXCEPT !.watchers = {e \in @ : ~(e.inode = r.inode /\ e.w = w)}],
          err |-> "nil"])

\* memWatcher.Watch
WatcherWatch(m, w, path) ==
    Bind(watch(m, w, path), LAMBDA r :
    IF r.m.panic \/ r.err # "nil" THEN r
    ELSE [r EXCEPT !.m.chans[w].paths = @ \cup {path}])

\* memWatcher.Remove
WatcherRemove(m, w, path) ==
    removeWatch([m EXCEPT !.chans[w].paths = @ \ {path}], w, path)

\* the loop of memWatcher.Close over the paths; the errors are ignored
RECURSIVE removeWatches(_, _, _)
removeWatches(m, w, paths) ==
    IF paths = {} \/ m.panic THEN m
    ELSE LET path == CHOOSE x \in paths : TRUE IN
         removeWatches(removeWatch(m, w, path).m, w, paths \ {path})

\* memWatcher.Close; close of a closed channel panics
WatcherClose(m, w) ==
    Bind(removeWatches(m, w, m.chans[w].paths), LAMBDA m1 :
    IF m1.panic \/ m1.chans[w].closed THEN Panic(m1)
    ELSE [m1 EXCEPT !.chans[w].closed = TRUE])

(***************************************************************************)
(* util.go                                                                 *)
(***************************************************************************)
\* ioutil.ReadAll on a memFile: Read until an error, io.EOF is not reported
RECURSIVE ReadAll(_, _, _)
ReadAll(m, f, acc) ==
    Bind(Read(m, f, MinRead), LAMBDA r :
    IF r.panic THEN [f |-> r.f, data |-> acc, err |-> "nil", panic |-> TRUE]
    ELSE IF r.err # "nil"
    THEN [f |-> r.f, data |-> acc \o r.data, panic |-> FALSE,
          err |-> IF r.err = "EOF" THEN "nil" ELSE r.err]
    ELSE ReadAll(m, r.f, acc \o r.data))

\* ReadFile; a memDir answers Read with ErrIsDir
ReadFile(m, filename) ==
    Bind(OpenFile(m, filename, RdOnlyFlag, ModeZero), LAMBDA o :
    IF o.m.panic THEN [data |-> <<>>, err |-> "nil", panic |-> TRUE]
    ELSE IF o.err # "nil" THEN [data |-> <<>>, err |-> o.err, panic |-> FALSE]
    ELSE IF o.isdir THEN [data |-> <<>>, err |-> "ErrIsDir", panic |-> FALSE]
    ELSE Bind(ReadAll(o.m, o.file, <<>>), LAMBDA r :
         [data |-> r.data, err |-> r.err, panic |-> r.panic]))

\* WriteFile
WriteFile(m, filename, content, perm) ==
    Bind(OpenFile(m, filename, WrOnlyFlag + CreateFlag + TruncFlag, perm), LAMBDA o :
    IF o.m.panic \/ o.err # "nil" THEN [m |-> o.m, inode |-> -1, err |-> o.err]
    ELSE IF o.isdir THEN [m |-> o.m, inode |-> o.file.inode, err |-> "ErrIsDir"]
    ELSE Bind(Write(o.m, o.file, content), LAMBDA w :
         [m |-> w.m, inode |-> o.file.inode,
          err |-> IF w.err = "nil" /\ w.n < Len(content) THEN "ErrShortWrite" ELSE w.err]))

\* sort.Strings: the order of strings is the order of their bytes
RECURSIVE StrLess(_, _)
StrLess(a, b) ==
    IF b = <<>> THEN FALSE
    ELSE IF a = <<>> THEN TRUE
    ELSE IF a[1] # b[1] THEN a[1] < b[1]
    ELSE StrLess(Tail(a), Tail(b))

RECURSIVE SortInsert(_, _)
SortInsert(x, s) ==
    IF s = <<>> THEN <<x>>
    ELSE IF StrLess(x, s[1]) THEN <<x>> \o s
    ELSE <<s[1]>> \o SortInsert(x, Tail(s))

RECURSIVE SortStrings(_)
SortStrings(s) == IF s = <<>> THEN <<>> ELSE SortInsert(Head(s), SortStrings(Tail(s)))

\* readDirNames: Open, Readdirnames(-1), sort.Strings
readDirNames(m, dirname) ==
    Bind(OpenFile(m, dirname, RdOnlyFlag, ModeZero), LAMBDA o :
    IF o.m.panic THEN [names |-> <<>>, err |-> "nil", panic |-> TRUE]
    ELSE IF o.err # "nil" THEN [names |-> <<>>, err |-> o.err, panic |-> FALSE]
    ELSE IF ~o.isdir THEN [names |-> <<>>, err |-> "ErrNotDir", panic |-> FALSE]
    ELSE Bind(Readdirnames(o.m, o.file, -1), LAMBDA r :
         [names |-> IF r.err = "nil" /\ ~r.panic THEN SortStrings(r.names) ELSE r.names,
          err |-> r.err, panic |-> r.panic]))

\* the walk function of TestUtilWalk: it notes the path, and returns the error
\* it was given, or the error wf.err at the path wf.match
walkFn(wf, path, err) == IF path = wf.match THEN wf.err ELSE err

\* walk, and the loop of walk over the names of a directory; got is the list
\* of the paths the walk function has noted
RECURSIVE walk(_, _, _, _, _, _)
RECURSIVE walkNames(_, _, _, _, _)
\* a walk that goes into a directory whatever the walk function returns
walkDescend(m, dir, info, err, wf, got) ==
    IF info.ok /\ ~IsDir(m, info.inode)
    THEN [err |-> walkFn(wf, dir, err), got |-> Append(got, dir), panic |-> FALSE]
    ELSE Bind(readDirNames(m, dir), LAMBDA rd :
         IF rd.panic THEN [err |-> "nil", got |-> got, panic |-> TRUE]
         ELSE IF rd.err # "nil"
         THEN [err |-> walkFn(wf, dir, rd.err), got |-> Append(got, dir), panic |-> FALSE]
         ELSE walkNames(m, dir, rd.names, wf, Append(got, dir)))

walk(m, dir, info, err, wf, got) ==
    IF info.ok /\ ~IsDir(m, info.inode)
    THEN [err |-> walkFn(wf, dir, err), got |-> Append(got, dir), panic |-> FALSE]
    ELSE Bind(readDirNames(m, dir), LAMBDA rd :
         IF rd.panic THEN [err |-> "nil", got |-> got, panic |-> TRUE]
         ELSE Bind(walkFn(wf, dir, rd.err), LAMBDA err1 :
              IF rd.err # "nil" \/ err1 # "nil"
              THEN [err |-> err1, got |-> Append(got, dir), panic |-> FALSE]
              ELSE walkNames(m, dir, rd.names, wf, Append(got, dir))))

walkNames(m, dir, names, wf, got) ==
    IF names = <<>> THEN [err |-> "nil", got |-> got, panic |-> FALSE]
    ELSE Bind(Lstat(m, PathJoin(dir, Head(names))), LAMBDA li :
         IF li.panic THEN [err |-> "nil", got |-> got, panic |-> TRUE]
         ELSE Bind(walk(m, PathJoin(dir, Head(names)),
                        [ok |-> li.err = "nil", inode |-> li.inode], li.err, wf, got),
              LAMBDA r :
              IF r.panic \/ (r.err # "nil" /\ r.err # "ErrSkipDir") THEN r
              ELSE walkNames(m, dir, Tail(names), wf, r.got)))

\* Walk
Walk(m, root, wf) ==
    Bind(Lstat(m, root), LAMBDA li :
    IF li.panic THEN [err |-> "nil", got |-> <<>>, panic |-> TRUE]
    ELSE Bind(walk(m, root, [ok |-> li.err = "nil", inode |-> li.inode], li.err, wf, <<>>),
         LAMBDA r : [r EXCEPT !.err = IF @ = "ErrSkipDir" THEN "nil" ELSE @]))

\* Mkdir for MkdirAll: a directory that is there already is no error
MkdirOrThere(m, dirname, perm) ==
    Bind(Mkdir(m, dirname, perm), LAMBDA mk :
    IF mk.m.panic \/ mk.err = "nil" THEN mk
    ELSE Bind(Lstat(mk.m, dirname), LAMBDA li :
         IF li.panic THEN [m |-> Panic(mk.m), err |-> "nil"]
         ELSE IF li.err = "nil" /\ IsDir(mk.m, li.inode) THEN [m |-> mk.m, err |-> "nil"]
         ELSE mk))

\* a MkdirAll that is content with any file Stat finds
RECURSIVE MkdirAllAnyFile(_, _, _)
MkdirAllAnyFile(m, dirname, perm) ==
    Bind(Stat(m, dirname), LAMBDA st :
    IF st.panic THEN [m |-> Panic(m), err |-> "nil"]
    ELSE IF st.err = "nil" THEN [m |-> m, err |-> "nil"]
    ELSE IF PathDir(dirname) = dirname THEN [m |-> Panic(m), err |-> "nil"]
    ELSE Bind(MkdirAllAnyFile(m, PathDir(dirname), perm), LAMBDA r :
         IF r.m.panic \/ r.err # "nil" THEN r ELSE MkdirOrThere(r.m, dirname, perm)))

\* MkdirAll.  path.Dir of "." is ".": when Stat does not find ".", the calls
\* nest without end and the stack overflows.
RECURSIVE MkdirAll(_, _, _)
MkdirAll(m, dirname, perm) ==
    Bind(Stat(m, dirname), LAMBDA st :
    IF st.panic THEN [m |-> Panic(m), err |-> "nil"]
    ELSE IF st.err = "nil"
    THEN [m |-> m, err |-> IF IsDir(m, st.inode) THEN "nil" ELSE "ErrNotDir"]
    ELSE IF PathDir(dirname) = dirname THEN [m |-> Panic(m), err |-> "nil"]
    ELSE Bind(MkdirAll(m, PathDir(dirname), perm), LAMBDA r :
         IF r.m.panic \/ r.err # "nil" THEN r ELSE MkdirOrThere(r.m, dirname, perm)))

(***************************************************************************)
(* The program state: one memfs, the handles the caller holds, and the     *)
(* outcome of the last call.                                               *)
(***************************************************************************)
VARIABLES
    inodes,      \* memfs.inodes
    freeInodes,  \* memfs.freeInodes
    freeBlocks,  \* memfs.freeBlocks
    blocks,      \* memfs.blocks
    watchers,    \* memfs.watchers
    chans,       \* the event channels of the watchers
    files,       \* the File values returned by OpenFile that the caller kept
    last,        \* the last call: its arguments, results and notify calls
    panicked,    \* a call ended in a run-time panic
    left,        \* the number of calls the caller still makes
    threads      \* the goroutines that run calls concurrently: what each one
                 \* has left to do, the locks it holds and its local variables

vars == <<inodes, freeInodes, freeBlocks, blocks, watchers, chans, files, last, panicked, left,
          threads>>
fsvars == <<inodes, freeInodes, freeBlocks, blocks, watchers, chans>>

\* the longest call sequences explored, one bound for each specification
MaxOpsNS == 3
MaxOpsIO == 4
MaxOpsRW == 5
MaxOpsAlloc == 6
\* the most handles the caller keeps
MaxFiles == 1
\* the most inodes and blocks the tables grow to
MaxInodes == 4
MaxBlocks == 5

M == [inodes |-> inodes, freeInodes |-> freeInodes, freeBlocks |-> freeBlocks,
      blocks |-> blocks, watchers |-> watchers, chans |-> chans,
      notes |-> <<>>, panic |-> FALSE]

NoCall == [op |-> "none", path |-> <<>>, path2 |-> <<>>, h |-> 0, err |-> "nil",
           n |-> 0, data |-> <<>>, notes |-> <<>>, inode |-> -1, iblocks |-> <<>>,
           arg |-> 0, pdir |-> FALSE, pdir2 |-> FALSE, wasdir |-> FALSE, names |-> <<>>,
           werr |-> "nil", mode |-> ModeZero,
           prev |-> [op |-> "none", path |-> <<>>, err |-> "nil", n |-> 0, nblocks |-> 0]]

\* the inode a path names before the call, -1 when it names none
Resolve(p) ==
    Bind(Lstat(M, p), LAMBDA r : IF ~r.panic /\ r.err = "nil" THEN r.inode ELSE -1)

\* what a call keeps of the call before it
Prev == [op |-> last.op, path |-> last.path, err |-> last.err, n |-> last.n,
         nblocks |-> Len(last.iblocks)]

\* the directory part of a path names a directory before the call
ParentIsDir(p) ==
    Bind(Lstat(M, PathSplit(p).dir), LAMBDA r :
         ~r.panic /\ r.err = "nil" /\ inodes[r.inode + 1].mode.dir)

Call(op, p) ==
    Bind(Resolve(p), LAMBDA i :
    [NoCall EXCEPT !.op = op, !.path = p, !.inode = i, !.prev = Prev,
                   !.pdir = ParentIsDir(p),
                   !.wasdir = IF i >= 0 THEN inodes[i + 1].mode.dir ELSE FALSE,
                   !.iblocks = IF i >= 0 THEN inodes[i + 1].blocks ELSE <<>>])

HCall(op, h) ==
    [NoCall EXCEPT !.op = op, !.h = h, !.path = files[h].f.name, !.prev = Prev,
                   !.inode = files[h].f.inode,
                   !.iblocks = inodes[files[h].f.inode + 1].blocks]

\* the state after NewMemFs, with calls calls to come
StartFs(calls) ==
    /\ inodes = NewMemFs.inodes
    /\ freeInodes = NewMemFs.freeInodes
    /\ freeBlocks = NewMemFs.freeBlocks
    /\ blocks = NewMemFs.blocks
    /\ watchers = NewMemFs.watchers
    /\ chans = NewMemFs.chans
    /\ files = <<>>
    /\ last = NoCall
    /\ panicked = FALSE
    /\ left = calls

\* one caller, no goroutines
Start(calls) ==
    /\ StartFs(calls)
    /\ threads = <<>>

\* a call may start: the process is alive and the tables stay within the bounds
Ready ==
    /\ ~panicked
    /\ left > 0

InBounds(m) ==
    /\ Len(m.inodes) <= MaxInodes
    /\ Len(m.blocks) <= MaxBlocks

\* the memfs after a call; a panic ends the process and leaves nothing to see
Commit(m, call) ==
    /\ InBounds(m)
    /\ left' = left - 1
    /\ threads' = threads
    /\ IF m.panic
       THEN /\ panicked' = TRUE
            /\ last' = [call EXCEPT !.err = "panic"]
            /\ UNCHANGED fsvars
       ELSE /\ panicked' = FALSE
            /\ last' = [call EXCEPT !.notes = m.notes]
            /\ inodes' = m.inodes
            /\ freeInodes' = m.freeInodes
            /\ freeBlocks' = m.freeBlocks
            /\ blocks' = m.blocks
            /\ watchers' = m.watchers
            /\ chans' = m.chans

DoMkdir(p, perm) ==
    /\ Ready
    /\ \E r \in {Mkdir(M, p, perm)} :
          Commit(r.m, [Call("Mkdir", p) EXCEPT !.err = r.err])
    /\ UNCHANGED files

DoOpenFile(p, flag, perm, keep) ==
    /\ Ready
    /\ keep => Len(files) < MaxFiles
    /\ \E r \in {OpenFile(M, p, flag, perm)} :
          /\ Commit(r.m, [Call("OpenFile", p) EXCEPT !.err = r.err, !.arg = flag,
                                                     !.n = r.file.inode])
          /\ files' = IF keep /\ r.err = "nil" /\ ~r.m.panic
                      THEN Append(files, [f |-> r.file, isdir |-> r.isdir, flag |-> flag])
                      ELSE files

DoRemove(p) ==
    /\ Ready
    /\ \E r \in {Remove(M, p)} :
          Commit(r.m, [Call("Remove", p) EXCEPT !.err = r.err])
    /\ UNCHANGED files

DoRename(p, q) ==
    /\ Ready
    /\ \E r \in {Rename(M, p, q)} :
          Commit(r.m, [Call("Rename", p) EXCEPT !.err = r.err, !.path2 = q,
                                                   !.pdir2 = ParentIsDir(q)])
    /\ UNCHANGED files

DoChmod(p, mode) ==
    /\ Ready
    /\ \E r \in {Chmod(M, p, mode)} :
          Commit(r.m, [Call("Chmod", p) EXCEPT !.err = r.err, !.mode = mode])
    /\ UNCHANGED files

\* File.Write; a memDir answers ErrIsDir
DoWrite(h, data) ==
    /\ Ready
    /\ h \in DOMAIN files
    /\ IF files[h].isdir
       THEN /\ Commit(M, [HCall("Write", h) EXCEPT !.err = "ErrIsDir", !.data = data])
            /\ UNCHANGED files
       ELSE \E r \in {Write(M, files[h].f, data)} :
            /\ Commit(r.m, [HCall("Write", h) EXCEPT !.err = r.err, !.n = r.n,
                                                     !.data = data])
            /\ files' = IF r.m.panic THEN files ELSE [files EXCEPT ![h].f = r.f]

\* File.Read into a buffer of plen bytes
DoRead(h, plen) ==
    /\ Ready
    /\ h \in DOMAIN files
    /\ IF files[h].isdir
       THEN /\ Commit(M, [HCall("Read", h) EXCEPT !.err = "ErrIsDir", !.arg = plen])
            /\ UNCHANGED files
       ELSE \E r \in {Read(M, files[h].f, plen)} :
            /\ Commit([M EXCEPT !.panic = r.panic],
                      [HCall("Read", h) EXCEPT !.err = r.err, !.n = Len(r.data),
                                               !.data = r.data, !.arg = plen])
            /\ files' = IF r.panic THEN files ELSE [files EXCEPT ![h].f = r.f]

\* File.Seek
DoSeek(h, offset, whence) ==
    /\ Ready
    /\ h \in DOMAIN files
    /\ IF files[h].isdir
       THEN /\ Commit(M, [HCall("Seek", h) EXCEPT !.err = "ErrIsDir"])
            /\ UNCHANGED files
       ELSE \E r \in {Seek(M, files[h].f, offset, whence)} :
            /\ Commit(M, [HCall("Seek", h) EXCEPT !.err = r.err, !.n = r.end,
                                                  !.arg = whence])
            /\ files' = [files EXCEPT ![h].f = r.f]

\* memFile.Close
DoClose(h) ==
    /\ Ready
    /\ h \in DOMAIN files
    /\ ~files[h].isdir
    /\ \E r \in {Close(files[h].f)} :
          /\ Commit(M, [HCall("Close", h) EXCEPT !.err = r.err])
          /\ files' = [files EXCEPT ![h].f = r.f]

\* memFile.trunc
DoTrunc(h, size) ==
    /\ Ready
    /\ h \in DOMAIN files
    /\ ~files[h].isdir
    /\ \E r \in {fileTrunc(M, files[h].f, size)} :
          Commit(r.m, [HCall("trunc", h) EXCEPT !.err = r.err, !.arg = size])
    /\ UNCHANGED files

\* memDir.Readdir; the caller keeps the names of the entries returned
DoReaddir(h, n) ==
    /\ Ready
    /\ h \in DOMAIN files
    /\ files[h].isdir
    /\ \E r \in {Readdir(M, files[h].f, n)} :
          /\ Commit([M EXCEPT !.panic = r.panic],
                    [HCall("Readdir", h) EXCEPT
                        !.err = r.err, !.arg = n, !.n = Len(r.entries),
                        !.names = [i \in DOMAIN r.entries |-> r.entries[i].name]])
          /\ files' = IF r.panic THEN files ELSE [files EXCEPT ![h].f = r.f]

\* memDir.Readdirnames
DoReaddirnames(h, n) ==
    /\ Ready
    /\ h \in DOMAIN files
    /\ files[h].isdir
    /\ \E r \in {Readdirnames(M, files[h].f, n)} :
          /\ Commit([M EXCEPT !.panic = r.panic],
                    [HCall("Readdirnames", h) EXCEPT
                        !.err = r.err, !.arg = n, !.n = Len(r.names), !.names = r.names])
          /\ files' = IF r.panic THEN files ELSE [files EXCEPT ![h].f = r.f]

\* memfs.Watcher; the caller makes at most max watchers
DoWatcher(cap, max) ==
    /\ Ready
    /\ Len(chans) < max
    /\ Commit(Watcher(M, cap), [NoCall EXCEPT !.op = "Watcher", !.arg = cap, !.prev = Prev])
    /\ UNCHANGED files

\* Watcher.Watch
DoWatch(w, p) ==
    /\ Ready
    /\ w \in DOMAIN chans
    /\ \E r \in {WatcherWatch(M, w, p)} :
          Commit(r.m, [Call("Watch", p) EXCEPT !.err = r.err, !.h = w])
    /\ UNCHANGED files

\* Watcher.Close
DoWatcherClose(w) ==
    /\ Ready
    /\ w \in DOMAIN chans
    /\ Commit(WatcherClose(M, w), [NoCall EXCEPT !.op = "WatcherClose", !.h = w,
                                                 !.prev = Prev])
    /\ UNCHANGED files

\* Watcher.Remove; the call record keeps in n the number of paths the watcher
\* held when it was called
DoWatcherRemove(w, p) ==
    /\ Ready
    /\ w \in DOMAIN chans
    /\ \E r \in {WatcherRemove(M, w, p)} :
          Commit(r.m, [Call("WatcherRemove", p) EXCEPT !.err = r.err, !.h = w,
                           !.n = Cardinality(chans[w].paths)])
    /\ UNCHANGED files

DoWriteFile(p, content, perm) ==
    /\ Ready
    /\ \E r \in {WriteFile(M, p, content, perm)} :
          Commit(r.m, [Call("WriteFile", p) EXCEPT !.err = r.err, !.data = content,
                                                      !.n = r.inode])
    /\ UNCHANGED files

(***************************************************************************)
(* Inputs                                                                  *)
(***************************************************************************)
\* "/", "/a", "/b", "/c", "/a/b"
PRoot == <<47>>
PA == <<47, 97>>
PB == <<47, 98>>
PC == <<47, 99>>
PAB == <<47, 97, 47, 98>>

\* the flags of Create, Open and WriteFile
CreateFlags == RdWrFlag + CreateFlag + TruncFlag
WriteFileFlags == WrOnlyFlag + CreateFlag + TruncFlag

\* n bytes that differ from place to place
Content(n, seed) == [i \in 1..n |-> (i + seed) % 251]

(***************************************************************************)
(* SpecNS: the calls that change the name space, on the root, three names  *)
(* of the root directory and one name below them                           *)
(***************************************************************************)
NSPaths == {PRoot, PA, PB, PC, PAB}
NSModes == {Perm(420), DirPerm(493)}

InitNS == Start(MaxOpsNS)

NextNS ==
    \/ \E p \in NSPaths : DoMkdir(p, Perm(493))
    \/ \E p \in NSPaths : DoOpenFile(p, CreateFlags, Perm(438), FALSE)
    \/ \E p \in NSPaths : DoRemove(p)
    \/ \E p \in NSPaths, q \in NSPaths : DoRename(p, q)
    \/ \E p \in NSPaths, mode \in NSModes : DoChmod(p, mode)

SpecNS == InitNS /\ [][NextNS]_vars

(***************************************************************************)
(* SpecRW: WriteFile and Remove on three names of the root directory       *)
(***************************************************************************)
RWPaths == {PA, PB, PC}
RWContents == {<<>>, Content(5, 0), Content(1100, 7)}

InitRW == Start(MaxOpsRW)

NextRW ==
    \/ \E p \in RWPaths, c \in RWContents : DoWriteFile(p, c, Perm(420))
    \/ \E p \in RWPaths : DoRemove(p)

SpecRW == InitRW /\ [][NextRW]_vars

(***************************************************************************)
(* SpecIO: one handle on "/a" and the calls on it                          *)
(***************************************************************************)
IOContents == {Content(3, 0), Content(600, 1)}
IOOffsets == {0, 2}
IOWhence == {SeekStart, SeekCurrent, SeekEnd}
IOLens == {2, 700}

InitIO == Start(MaxOpsIO)

NextIO ==
    \/ DoOpenFile(PA, CreateFlags, Perm(438), TRUE)
    \/ \E h \in 1..MaxFiles, c \in IOContents : DoWrite(h, c)
    \/ \E h \in 1..MaxFiles, plen \in IOLens : DoRead(h, plen)
    \/ \E h \in 1..MaxFiles, o \in IOOffsets, w \in IOWhence : DoSeek(h, o, w)
    \/ \E h \in 1..MaxFiles : DoClose(h)

SpecIO == InitIO /\ [][NextIO]_vars

(***************************************************************************)
(* SpecAlloc: WriteFile and Remove on two names of the root directory,     *)
(* with contents of one and of two blocks                                  *)
(***************************************************************************)
AllocPaths == {PA, PB}
AllocContents == {Content(5, 0), Content(1100, 7)}

InitAlloc == Start(MaxOpsAlloc)

NextAlloc ==
    \/ \E p \in AllocPaths, c \in AllocContents : DoWriteFile(p, c, Perm(420))
    \/ \E p \in AllocPaths : DoRemove(p)

SpecAlloc == InitAlloc /\ [][NextAlloc]_vars

(***************************************************************************)
(* SpecOpen: OpenFile with every flag value on a regular file, a directory *)
(* and a missing name                                                      *)
(***************************************************************************)
\* the longest call sequence explored
MaxOpsOpen == 2

\* every value made of the bits of the access modes and of the other flags
FlagBits == {WrOnlyFlag, RdWrFlag, AppendFlag, CreateFlag, ExclFlag, TruncFlag}
RECURSIVE SumOf(_)
SumOf(S) == IF S = {} THEN 0 ELSE LET x == CHOOSE y \in S : TRUE IN x + SumOf(S \ {x})
OpenFlags == {SumOf(S) : S \in SUBSET FlagBits}

OpenContents == {Content(5, 0), Content(1100, 7)}

InitOpen == Start(MaxOpsOpen)

NextOpen ==
    \/ \E c \in OpenContents : DoWriteFile(PA, c, Perm(420))
    \/ DoMkdir(PB, Perm(493))
    \/ \E p \in {PA, PB, PC}, flag \in OpenFlags : DoOpenFile(p, flag, Perm(438), FALSE)

SpecOpen == InitOpen /\ [][NextOpen]_vars

(***************************************************************************)
(* SpecHandle: handles on "/a" opened read-only, write-only and read-write, *)
(* with Seek and trunc arguments inside and outside their valid ranges     *)
(***************************************************************************)
\* the longest call sequence explored
MaxOpsHandle == 4

HandleFlags == {RdOnlyFlag, WrOnlyFlag, RdWrFlag, WrOnlyFlag + CreateFlag + TruncFlag}
HandleContents == {Content(3, 0), Content(1100, 7)}
HandleOffsets == {-1, 0, 2}
\* the three values of whence and one that is none of them
HandleWhence == {SeekStart, SeekCurrent, SeekEnd, SeekEnd + 1}
HandleSizes == {-1, 0, 2, 5, 2 * blocksize}

InitHandle == Start(MaxOpsHandle)

NextHandle ==
    \/ \E c \in HandleContents : DoWriteFile(PA, c, Perm(420))
    \/ \E flag \in HandleFlags : DoOpenFile(PA, flag, Perm(438), TRUE)
    \/ \E h \in 1..MaxFiles : DoWrite(h, Content(3, 1))
    \/ \E h \in 1..MaxFiles : DoRead(h, 2)
    \/ \E h \in 1..MaxFiles, o \in HandleOffsets, w \in HandleWhence : DoSeek(h, o, w)
    \/ \E h \in 1..MaxFiles, size \in HandleSizes : DoTrunc(h, size)

SpecHandle == InitHandle /\ [][NextHandle]_vars

(***************************************************************************)
(* SpecDir: a handle on the root directory, read with Readdir and           *)
(* Readdirnames while entries are added to the directory                   *)
(***************************************************************************)
\* the longest call sequence explored
MaxOpsDir == 5

DirPaths == {PA, PB}
\* the argument n of Readdir: below -1, -1, 0, and above 0
DirCounts == {-2, -1, 0, 1, 2}

InitDir == Start(MaxOpsDir)

NextDir ==
    \/ \E p \in DirPaths : DoOpenFile(p, CreateFlags, Perm(438), FALSE)
    \/ DoOpenFile(PRoot, RdOnlyFlag, ModeZero, TRUE)
    \/ \E h \in 1..MaxFiles, n \in DirCounts : DoReaddir(h, n)
    \/ \E h \in 1..MaxFiles, n \in DirCounts : DoReaddirnames(h, n)

SpecDir == InitDir /\ [][NextDir]_vars

(***************************************************************************)
(* SpecCheck: OpenFlag.check applied to one flag value, every value made   *)
(* of the bits of the flags                                                *)
(***************************************************************************)
InitCheck ==
    /\ \E flag \in OpenFlags : last = [NoCall EXCEPT !.arg = flag]
    /\ inodes = NewMemFs.inodes
    /\ freeInodes = NewMemFs.freeInodes
    /\ freeBlocks = NewMemFs.freeBlocks
    /\ blocks = NewMemFs.blocks
    /\ watchers = NewMemFs.watchers
    /\ chans = NewMemFs.chans
    /\ files = <<>>
    /\ panicked = FALSE
    /\ left = 1
    /\ threads = <<>>

\* OpenFlag.check
DoCheck ==
    /\ Ready
    /\ last' = [last EXCEPT !.op = "check", !.err = check(last.arg)]
    /\ left' = left - 1
    /\ UNCHANGED <<fsvars, files, panicked, threads>>

NextCheck == DoCheck

SpecCheck == InitCheck /\ [][NextCheck]_vars

(***************************************************************************)
(* SpecNotify: one watcher with a channel that never fills, on the root or *)
(* on the directory "/a", and the calls that change a directory            *)
(***************************************************************************)
\* the longest call sequence explored
MaxOpsNotify == 6

NotifyWatched == {PRoot, PA}
NotifyPaths == {PA, PB, PAB}
NotifyRenames == {<<PA, PB>>, <<PB, PA>>}

InitNotify == Start(MaxOpsNotify)

NextNotify ==
    \/ DoWatcher(ChanCap, 1)
    \/ \E p \in NotifyWatched : DoWatch(1, p)
    \/ DoMkdir(PA, Perm(493))
    \/ \E p \in NotifyPaths : DoOpenFile(p, CreateFlags, Perm(438), TRUE)
    \/ \E h \in 1..MaxFiles : DoWrite(h, Content(5, 0))
    \/ \E pq \in NotifyRenames : DoRename(pq[1], pq[2])
    \/ \E p \in {PA, PB} : DoRemove(p)

SpecNotify == InitNotify /\ [][NextNotify]_vars

(***************************************************************************)
(* SpecFull: two watchers of the root, one with a channel of capacity 1    *)
(* that nobody reads, and the calls that change the root directory         *)
(***************************************************************************)
\* the longest call sequence explored
MaxOpsFull == 6
\* the capacities of the channels of the watchers
FullCaps == {1, 2}

\* the perm arguments of Create and of Mkdir
FullFilePerm == Perm(438)
FullDirPerm == Perm(493)

InitFull == Start(MaxOpsFull)

NextFull ==
    \/ \E cap \in FullCaps : DoWatcher(cap, 2)
    \/ \E w \in 1..2 : DoWatch(w, PRoot)
    \/ DoMkdir(PB, FullDirPerm)
    \/ DoOpenFile(PA, CreateFlags, FullFilePerm, TRUE)
    \/ \E h \in 1..MaxFiles : DoWrite(h, Content(5, 0))
    \/ DoRename(PA, PC)
    \/ DoRemove(PA)

SpecFull == InitFull /\ [][NextFull]_vars

(***************************************************************************)
(* SpecClose: a watcher of the directory "/a" that is closed after the     *)
(* directory was renamed or removed, and the calls made after Close        *)
(***************************************************************************)
\* the longest call sequence explored
MaxOpsClose == 6

\* "/b/a"
PBA == <<47, 98, 47, 97>>

InitClose == Start(MaxOpsClose)

NextClose ==
    \/ DoWatcher(ChanCap, 1)
    \/ \E p \in {PRoot, PA} : (1 \in DOMAIN chans /\ ~chans[1].closed) /\ DoWatch(1, p)
    \/ DoWatcherClose(1)
    \/ DoMkdir(PA, Perm(493))
    \/ \E p \in {PAB, PBA} : DoOpenFile(p, CreateFlags, Perm(438), FALSE)
    \/ DoRename(PA, PB)
    \/ DoRemove(PA)

SpecClose == InitClose /\ [][NextClose]_vars

(***************************************************************************)
(* What a caller sees of the state                                         *)
(***************************************************************************)
\* the most directory entries a listing reads
MaxList == 12

\* the entries memDir.next returns one after the other until it fails
RECURSIVE Entries(_, _, _)
Entries(m, f, k) ==
    IF k = 0 THEN <<>>
    ELSE LET r == next(m, f) IN
         IF r.panic \/ r.err # "nil" THEN <<>>
         ELSE <<r.ent>> \o Entries(m, r.f, k - 1)

\* the entries of directory inode n
List(n) == Entries(M, NewFile(n), MaxList)

Range(s) == {s[i] : i \in DOMAIN s}

Allocated(n) == n >= 0 /\ n < Len(inodes) /\ n \notin Range(freeInodes)

NotExist(r) == ~r.panic /\ r.err = "ErrNotExist"

\* the call just made returned nil
Returned(op) == last.op = op /\ last.err = "nil"

(***************************************************************************)
(* SpecLink: files, directories and symlinks in the root directory, and    *)
(* Stat and Lstat of their names.  No call of the FileSystem interface     *)
(* makes a symlink with a target; TestMemStat makes one with memfs.create, *)
(* an assignment to the link field and a second memDir.append.             *)
(***************************************************************************)
MaxOpsLink == 4

ModeSymlink(perm) == [dir |-> FALSE, symlink |-> TRUE, perm |-> perm]

\* the symlink of TestMemStat, in the root directory
Symlink(m, linkname, target) ==
    Bind(create(m, linkname, 0, ModeSymlink(511)), LAMBDA c :
    IF c.m.panic THEN c.m
    ELSE dirAppend([c.m EXCEPT !.inodes[c.inode + 1].link = target],
                   NewFile(0), c.inode, linkname).m)

DoSymlink(p, target) ==
    /\ Ready
    /\ Commit(Symlink(M, PathBase(p), target), [Call("Symlink", p) EXCEPT !.path2 = target])
    /\ UNCHANGED files

\* memfs.Stat; the caller keeps the inode and the name of the FileInfo
DoStat(p) ==
    /\ Ready
    /\ \E r \in {Stat(M, p)} :
          Commit([M EXCEPT !.panic = r.panic],
                 [Call("Stat", p) EXCEPT !.err = r.err, !.n = r.inode, !.data = r.name])
    /\ UNCHANGED files

\* memfs.Lstat
DoLstat(p) ==
    /\ Ready
    /\ \E r \in {Lstat(M, p)} :
          Commit([M EXCEPT !.panic = r.panic],
                 [Call("Lstat", p) EXCEPT !.err = r.err, !.n = r.inode, !.data = r.name])
    /\ UNCHANGED files

LinkPaths == {PA, PB, PC}
LinkTargets == {<<97>>, PC}

InitLink == Start(MaxOpsLink)

NextLink ==
    \/ DoOpenFile(PA, CreateFlags, Perm(438), FALSE)
    \/ DoMkdir(PA, Perm(493))
    \/ \E p \in {PB, PC}, target \in LinkTargets : DoSymlink(p, target)
    \/ DoChmod(PA, ModeSymlink(511))
    \/ \E p \in LinkPaths : DoStat(p)
    \/ \E p \in LinkPaths : DoLstat(p)

SpecLink == InitLink /\ [][NextLink]_vars

(***************************************************************************)
(* SpecWalk: a tree of at most three files and directories made and        *)
(* unmade by Mkdir, Create and Remove, and Walk from the root or from      *)
(* "/a" with the walk function of TestUtilWalk                             *)
(***************************************************************************)
MaxOpsWalk == 4
PAA == <<47, 97, 47, 97>>

WalkPaths == {PA, PB, PAA, PAB}
\* the walk function returns nil everywhere, or an error at one path
WalkFns == {[match |-> <<>>, err |-> "nil"]}
           \cup [match : {PA, PB, PAA}, err : {"ErrSkipDir", "ErrNotExist"}]

\* Walk; the caller keeps the paths the walk function has noted
DoWalk(root, match, err) ==
    /\ Ready
    /\ \E r \in {Walk(M, root, [match |-> match, err |-> err])} :
          Commit([M EXCEPT !.panic = r.panic],
                 [Call("Walk", root) EXCEPT !.err = r.err, !.names = r.got,
                                            !.path2 = match, !.werr = err])
    /\ UNCHANGED files

InitWalk == Start(MaxOpsWalk)

\* the caller builds the tree, and walks it last
NextWalk ==
    \/ last.op # "Walk" /\ \E p \in {PA, PB} : DoMkdir(p, Perm(493))
    \/ last.op # "Walk" /\ \E p \in WalkPaths : DoOpenFile(p, CreateFlags, Perm(438), FALSE)
    \/ last.op # "Walk" /\ \E p \in {PA, PB} : DoRemove(p)
    \/ last.op # "Walk" /\ \E root \in {PRoot, PA}, wf \in WalkFns :
                               DoWalk(root, wf.match, wf.err)

SpecWalk == InitWalk /\ [][NextWalk]_vars

(***************************************************************************)
(* SpecMkdirAll: MkdirAll of "/a/b", "/a/b/c" and the relative "a/b", on   *)
(* trees where "/a" and "/a/b" may be files or directories or removed      *)
(***************************************************************************)
MaxOpsMkdirAll == 4
PABC == <<47, 97, 47, 98, 47, 99>>
RelAB == <<97, 47, 98>>

DoMkdirAll(p, perm) ==
    /\ Ready
    /\ \E r \in {MkdirAll(M, p, perm)} :
          Commit(r.m, [Call("MkdirAll", p) EXCEPT !.err = r.err])
    /\ UNCHANGED files

InitMkdirAll == Start(MaxOpsMkdirAll)

NextMkdirAll ==
    \/ \E p \in {PA, PB} : DoMkdir(p, Perm(493))
    \/ \E p \in {PA, PAB} : DoOpenFile(p, CreateFlags, Perm(438), FALSE)
    \/ \E p \in {PA, PB} : DoRemove(p)
    \/ \E p \in {PAB, PABC, RelAB} : DoMkdirAll(p, Perm(511))

SpecMkdirAll == InitMkdirAll /\ [][NextMkdirAll]_vars

(***************************************************************************)
(* Locking.  Every function of mem.go is reduced to the Lock and Unlock    *)
(* calls it makes, in the order it makes them, nested as its calls nest.   *)
(* A sync.Mutex is not reentrant: a goroutine that locks a mutex it holds  *)
(* waits for ever.  The memFile values that a call builds for itself       *)
(* (&memFile{...} in find, create, Remove, Rename, unlink) are locked like *)
(* any other, under identities no other goroutine knows.                   *)
(***************************************************************************)
FileLock(f) == [kind |-> "file", id |-> f]
InodeLock(i) == [kind |-> "inode", id |-> i]
FsLock == [kind |-> "fs", id |-> 0]
WatcherLock(w) == [kind |-> "watcher", id |-> w]

Lock(l) == <<[do |-> "Lock", lock |-> l]>>
Unlock(l) == <<[do |-> "Unlock", lock |-> l]>>
Locked(l, body) == Lock(l) \o body \o Unlock(l)

RECURSIVE Times(_, _)
Times(n, body) == IF n <= 0 THEN <<>> ELSE body \o Times(n - 1, body)

\* a read, and a write, of the size, the mode or the block list of inode i
ReadInode(i) == <<[do |-> "Read", lock |-> InodeLock(i)]>>
WriteInode(i) == <<[do |-> "Write", lock |-> InodeLock(i)]>>

\* memInode.Size, Mode, IsDir
inodeLocks(i) == Locked(InodeLock(i), ReadInode(i))

\* memInode.setMode
setModeLocks(i) == Locked(InodeLock(i), WriteInode(i))

\* memfs.notify, block, free, alloc, and the table update of memfs.create
fsLocks == Locked(FsLock, <<>>)

\* a freeInode that resets the inode under the inode's own lock
freeInodeLocksInode(i) == Locked(FsLock, Locked(InodeLock(i), WriteInode(i)))

\* memfs.freeInode: the fields of the inode are reset under the lock of the
\* filesystem alone
freeInodeLocks(i) == Locked(FsLock, WriteInode(i))

\* memInode.readBlock; inrange: the offset lies before the size
readBlockLocks(i, inrange) ==
    Locked(InodeLock(i), ReadInode(i) \o (IF inrange THEN fsLocks ELSE <<>>))

\* memInode.writeBlock, which calls alloc grow times and block once
writeBlockLocks(i, grow) ==
    Locked(InodeLock(i), Times(grow, fsLocks) \o fsLocks \o WriteInode(i))

\* memInode.trunc: the blocks are read and handed to free, then the size and
\* the block list are set, all without the lock of the inode
inodeTruncLocks(i) == ReadInode(i) \o fsLocks \o WriteInode(i)

\* memFile.Seek
SeekLocks(f, i, whence) ==
    Locked(FileLock(f), IF whence = 2 THEN inodeLocks(i) ELSE <<>>)

\* memFile.Read: n calls of readBlock that copy, and a last one that meets
\* the end of the file when eof
ReadLocks(f, i, n, eof) ==
    Locked(FileLock(f), Times(n, readBlockLocks(i, TRUE))
                        \o (IF eof THEN readBlockLocks(i, FALSE) ELSE <<>>))

\* memFile.Write: n calls of writeBlock, IsDir, and notify for a regular file
WriteLocks(f, i, n, grow, isdir) ==
    Locked(FileLock(f), Times(n, writeBlockLocks(i, grow)) \o inodeLocks(i)
                        \o (IF isdir THEN <<>> ELSE fsLocks))

\* memFile.trunc: Size, then memInode.trunc, which calls free
fileTruncLocks(f, i) == Locked(FileLock(f), inodeLocks(i) \o inodeTruncLocks(i))

\* memFile.Close
CloseLocks(f) == Locked(FileLock(f), <<>>)

\* memFile.flags of a regular file
flagsLocks(f, i, flag) ==
    inodeLocks(i) \o (IF has(flag, TruncFlag) THEN inodeTruncLocks(i) ELSE <<>>)
                  \o (IF has(flag, AppendFlag) THEN SeekLocks(f, i, 2) ELSE <<>>)

\* memDir.next: dirent.read makes three reads, or one that meets the end
nextLocks(f, d, ok) ==
    IF ok THEN Times(3, ReadLocks(f, d, 1, FALSE)) ELSE ReadLocks(f, d, 0, TRUE)

\* memDir.findEntry: k entries are read; the last is the one looked for when
\* found, else the end of the directory follows
findEntryLocks(f, d, k, found) ==
    Times(k, nextLocks(f, d, TRUE)) \o (IF found THEN <<>> ELSE nextLocks(f, d, FALSE))

\* memDir.append: Seek, the three writes of dirent.write, Seek, notify
appendLocks(f, d, grow) ==
    SeekLocks(f, d, 2) \o WriteLocks(f, d, 1, grow, TRUE)
    \o Times(2, WriteLocks(f, d, 1, 0, TRUE)) \o SeekLocks(f, d, 0) \o fsLocks

\* memDir.unlink: findEntry, Seek, io.Copy from the reader r (one read and
\* one write when entries follow the one removed), Size and trunc
unlinkLocks(f, r, d, k, found, more) ==
    findEntryLocks(f, d, k, found)
    \o (IF ~found THEN <<>>
        ELSE SeekLocks(f, d, 1)
             \o ReadLocks(r, d, IF more THEN 1 ELSE 0, TRUE)
             \o (IF more THEN WriteLocks(f, d, 1, 0, TRUE) ELSE <<>>)
             \o inodeLocks(d) \o fileTruncLocks(f, d))

\* memDir.remove
removeLocks(f, r, d, k, found, more) ==
    unlinkLocks(f, r, d, k, found, more) \o (IF found THEN fsLocks ELSE <<>>)

\* memDir.rename
renameLocks(f, r, d, k, found, more) ==
    unlinkLocks(f, r, d, k, found, more)
    \o (IF found THEN appendLocks(f, d, 0) ELSE <<>>) \o fsLocks

\* memfs.find of a name of the directory d: Mode, then memDir.find
findLocks(f, d, k, found) == inodeLocks(d) \o findEntryLocks(f, d, k, found)

\* memfs.create: the mode of the inode is set under the lock of the
\* filesystem; touch comes last
createLocks(f, d, i, grow) ==
    Locked(FsLock, WriteInode(i)) \o appendLocks(f, d, grow) \o Locked(InodeLock(i), <<>>)

\* memfs.Chmod
ChmodLocks(f, d, k, i) == findLocks(f, d, k, TRUE) \o setModeLocks(i)

\* memfs.OpenFile of a name of the root directory: the file i is found after
\* k entries, or the directory ends after k entries and i is created
OpenFileLocks(f, d, k, i, flag, found) ==
    IF found
    THEN findLocks(f, d, k, TRUE) \o flagsLocks(f, i, flag) \o inodeLocks(i)
    ELSE findLocks(f, d, k, FALSE) \o inodeLocks(d)
         \o (IF has(flag, CreateFlag) /\ (has(flag, RdWrFlag) \/ has(flag, WrOnlyFlag))
             THEN createLocks(f, d, i, 0) \o flagsLocks(f, i, flag) \o inodeLocks(i)
             ELSE <<>>)

\* memfs.Remove of the name of i in the root directory
RemoveLocks(f, r, d, k, i, more) ==
    removeLocks(f, r, d, k, TRUE, more) \o freeInodeLocks(i)

\* memfs.Rename inside the root directory
RenameLocks(f, r, d, k, more) == renameLocks(f, r, d, k, TRUE, more)

\* memfs.Mkdir of a new name of the root directory
MkdirLocks(f, d, k, i) ==
    findLocks(f, d, k, FALSE) \o inodeLocks(d) \o createLocks(f, d, i, 0)

\* memfs.Stat of a name of the root directory
StatLocks(f, d, k, i) == findLocks(f, d, k, TRUE) \o inodeLocks(i)

\* memWatcher.Watch, Remove and Close with one path: find, then the table of
\* the watchers under the lock of the filesystem
WatcherLocks(w, f, d, k, found) ==
    Locked(WatcherLock(w), findLocks(f, d, k, found) \o (IF found THEN fsLocks ELSE <<>>))

(***************************************************************************)
(* SpecLock: goroutines that share two handles of the file of inode 1 and  *)
(* one watcher, and make calls on them and on the names of the root        *)
(* directory, one Lock or Unlock at a time                                 *)
(***************************************************************************)
MaxOpsLock == 2
Threads == {1, 2}

\* the root directory, the file in it that the handles refer to, and the
\* inode a call creates
LockRoot == 0
LockFile == 1
LockNew(t) == 1 + t

\* the memFile values a goroutine builds for itself
Own(t) == 10 * t
OwnReader(t) == 10 * t + 1

\* the calls a goroutine may make
LockCalls(t) ==
    UNION {
      {SeekLocks(h, LockFile, 2), ReadLocks(h, LockFile, 1, TRUE),
       WriteLocks(h, LockFile, 1, 1, FALSE), fileTruncLocks(h, LockFile),
       CloseLocks(h)} : h \in {1, 2} }
    \cup {ChmodLocks(Own(t), LockRoot, 1, LockFile),
          OpenFileLocks(Own(t), LockRoot, 1, LockFile, RdWrFlag + TruncFlag, TRUE),
          OpenFileLocks(Own(t), LockRoot, 1, LockNew(t), CreateFlags, FALSE),
          RemoveLocks(Own(t), OwnReader(t), LockRoot, 1, LockFile, TRUE),
          RenameLocks(Own(t), OwnReader(t), LockRoot, 1, FALSE),
          MkdirLocks(Own(t), LockRoot, 1, LockNew(t)),
          StatLocks(Own(t), LockRoot, 1, LockFile),
          WatcherLocks(1, Own(t), LockRoot, 1, TRUE)}

InitLock ==
    /\ StartFs(MaxOpsLock)
    /\ threads = [t \in Threads |-> [todo |-> <<>>, held |-> <<>>]]

Holder(l) == {t \in DOMAIN threads : \E j \in DOMAIN threads[t].held : threads[t].held[j] = l}

\* a goroutine starts a call
ThreadCall(t) ==
    /\ left > 0
    /\ threads[t].todo = <<>>
    /\ \E prog \in LockCalls(t) : threads' = [threads EXCEPT ![t].todo = prog]
    /\ left' = left - 1
    /\ UNCHANGED <<fsvars, files, last, panicked>>

\* Mutex.Lock returns once no goroutine holds the mutex
ThreadLock(t) ==
    /\ threads[t].todo # <<>>
    /\ Head(threads[t].todo).do = "Lock"
    /\ Holder(Head(threads[t].todo).lock) = {}
    /\ threads' = [threads EXCEPT ![t].todo = Tail(@),
                                  ![t].held = Append(@, Head(threads[t].todo).lock)]
    /\ UNCHANGED <<fsvars, files, last, panicked, left>>

\* Mutex.Unlock
ThreadUnlock(t) ==
    /\ threads[t].todo # <<>>
    /\ Head(threads[t].todo).do = "Unlock"
    /\ threads' = [threads EXCEPT ![t].todo = Tail(@),
                                  ![t].held = SelectSeq(@, LAMBDA l :
                                                  l # Head(threads[t].todo).lock)]
    /\ UNCHANGED <<fsvars, files, last, panicked, left>>

\* a goroutine reads or writes a field of an inode
ThreadAccess(t) ==
    /\ threads[t].todo # <<>>
    /\ Head(threads[t].todo).do \in {"Read", "Write"}
    /\ threads' = [threads EXCEPT ![t].todo = Tail(@)]
    /\ UNCHANGED <<fsvars, files, last, panicked, left>>

NextLock ==
    \E t \in Threads : ThreadCall(t) \/ ThreadLock(t) \/ ThreadUnlock(t) \/ ThreadAccess(t)

SpecLock == InitLock /\ [][NextLock]_vars

(***************************************************************************)
(* SpecRace: two goroutines that each call Create with a name of their own *)
(* in one directory.  A goroutine runs from one release of a lock to the   *)
(* next use of shared state in one step: OpenFile up to the inode that     *)
(* memfs.create takes, then Seek and the three writes of memDir.append,    *)
(* then the rest of the call.                                              *)
(***************************************************************************)
MaxOpsRace == 2
PAC == <<47, 97, 47, 99>>

Idle == [pc |-> "idle", name |-> <<>>, n |-> -1, f |-> NoFile, err |-> "nil"]

InitRace ==
    /\ StartFs(MaxOpsRace)
    /\ threads = [t \in Threads |-> Idle]

\* no goroutine runs: the caller makes its calls one after the other
Alone == \A t \in Threads : threads[t].pc = "idle"

\* the names of the entries of directory inode n
Names(n) == [i \in DOMAIN List(n) |-> List(n)[i].name]

\* go Create(p1); go Create(p2)
GoCreate(p1, p2) ==
    /\ Ready
    /\ Alone
    /\ threads' = [t \in Threads |-> [Idle EXCEPT !.pc = "OpenFile",
                                                  !.name = IF t = 1 THEN p1 ELSE p2]]
    /\ last' = [Call("go", p1) EXCEPT
                   !.path2 = p2,
                   !.inode = Resolve(PathDir(p1)),
                   !.arg = IF Resolve(p1) < 0 /\ Resolve(p2) < 0 THEN 1 ELSE 0,
                   !.names = IF Resolve(PathDir(p1)) >= 0
                             THEN Names(Resolve(PathDir(p1))) ELSE <<>>]
    /\ left' = left - 1
    /\ UNCHANGED <<fsvars, files, panicked>>

\* what a step of goroutine t leaves: the memfs m and the goroutine's variables
ThreadCommit(t, m, th) ==
    /\ InBounds(m)
    /\ panicked' = m.panic
    /\ threads' = [threads EXCEPT ![t] = th]
    /\ IF m.panic THEN UNCHANGED fsvars
       ELSE /\ inodes' = m.inodes
            /\ freeInodes' = m.freeInodes
            /\ freeBlocks' = m.freeBlocks
            /\ blocks' = m.blocks
            /\ watchers' = m.watchers
            /\ chans' = m.chans
    /\ UNCHANGED <<files, last, left>>

Done(th, err) == [th EXCEPT !.pc = "done", !.err = err]

\* OpenFile until memfs.create has taken its inode
ThreadOpenFile(t) ==
    /\ ~panicked
    /\ threads[t].pc = "OpenFile"
    /\ LET th == threads[t]
           r == find(M, th.name)
           pr == find(M, PathDir(th.name))
       IN IF r.panic \/ (r.err # "nil" /\ pr.panic) THEN ThreadCommit(t, Panic(M), th)
          ELSE IF r.err = "nil"
          THEN \E o \in {OpenFound(M, th.name, CreateFlags, r.inode)} :
                  ThreadCommit(t, o.m, Done(th, o.err))
          ELSE IF pr.err # "nil" THEN ThreadCommit(t, M, Done(th, pr.err))
          ELSE IF ~IsDir(M, pr.inode) THEN ThreadCommit(t, M, Done(th, "ErrNotDir"))
          ELSE \E c \in {createInode(M, pr.inode, Perm(438))} :
                  ThreadCommit(t, c.m, [th EXCEPT !.pc = "Seek", !.n = c.inode,
                                                  !.f = NewFile(pr.inode)])

\* memDir.append: dir.file.Seek(0, io.SeekEnd)
ThreadSeek(t) ==
    /\ ~panicked
    /\ threads[t].pc = "Seek"
    /\ ThreadCommit(t, M, [threads[t] EXCEPT !.pc = "inode",
                                             !.f = Seek(M, threads[t].f, 0, SeekEnd).f])

\* dirent.write: one of its three writes
ThreadWrite(t) ==
    /\ ~panicked
    /\ threads[t].pc \in {"inode", "length", "name"}
    /\ LET th == threads[t]
           p == IF th.pc = "inode" THEN Encode64(th.n)
                ELSE IF th.pc = "length" THEN Encode64(Len(PathBase(th.name)))
                ELSE PathBase(th.name)
       IN \E w \in {Write(M, th.f, p)} :
             ThreadCommit(t, w.m, [th EXCEPT !.f = w.f,
                                             !.pc = IF th.pc = "inode" THEN "length"
                                                    ELSE IF th.pc = "length" THEN "name"
                                                    ELSE "notify"])

\* the end of memDir.append, of memfs.create and of OpenFile
ThreadFinish(t) ==
    /\ ~panicked
    /\ threads[t].pc = "notify"
    /\ LET th == threads[t]
           m1 == notify(M, "Create", th.f.inode, PathBase(th.name))
       IN \E fl \in {flags(m1, NewFile(th.n), CreateFlags)} :
             ThreadCommit(t, fl.m, Done(th, "nil"))

NextRace ==
    \/ Alone /\ DoMkdir(PA, Perm(493))
    \/ Alone /\ DoOpenFile(PB, CreateFlags, Perm(438), FALSE)
    \/ \E ps \in {<<PB, PC>>, <<PAB, PAC>>, <<PA, PB>>} : GoCreate(ps[1], ps[2])
    \/ \E t \in Threads : \/ ThreadOpenFile(t)
                          \/ ThreadSeek(t)
                          \/ ThreadWrite(t)
                          \/ ThreadFinish(t)

SpecRace == InitRace /\ [][NextRace]_vars

(***************************************************************************)
(* SpecWatch: one watcher that watches the directory "/a" under two        *)
(* spellings of its path and removes the watch, and the calls that make    *)
(* and write a file of the directory                                       *)
(***************************************************************************)
\* the longest call sequence explored
MaxOpsWatch == 7

\* "/a/"
PASlash == <<47, 97, 47>>

\* the spellings of the path of the directory
WatchSpellings == {PA, PASlash}

InitWatch == Start(MaxOpsWatch)

NextWatch ==
    \/ DoWatcher(ChanCap, 1)
    \/ \E p \in WatchSpellings : DoWatch(1, p)
    \/ \E p \in WatchSpellings : DoWatcherRemove(1, p)
    \/ DoMkdir(PA, Perm(493))
    \/ DoOpenFile(PAB, CreateFlags, Perm(438), TRUE)
    \/ \E h \in 1..MaxFiles : DoWrite(h, Content(5, 0))

SpecWatch == InitWatch /\ [][NextWatch]_vars

(***************************************************************************)
(* C1                                                                      *)
(***************************************************************************)
\* C1: after any sequence of Chmod, OpenFile/Create, Mkdir, Remove and Rename
\* calls, inode 0 is a directory and 0 is not on the inode free-list.
C1_RootIsDirNeverFreed ==
    /\ inodes[1].mode.dir
    /\ 0 \notin Range(freeInodes)

(***************************************************************************)
(* C2                                                                      *)
(***************************************************************************)
\* C2: after Remove(p) returns nil, Stat(p) and Lstat(p) return a not-exist
\* error, wherever p's entry stood in its directory.
C2_RemovedNotExist ==
    (Returned("Remove") /\ PathSplit(last.path).file # <<>>) =>
        /\ NotExist(Stat(M, last.path))
        /\ NotExist(Lstat(M, last.path))

(***************************************************************************)
(* C5                                                                      *)
(***************************************************************************)
\* C5: every inode number stored in an entry of a directory refers to an
\* allocated inode: it is in the inode table and not on the inode free-list.
C5_EntriesAllocated ==
    \A d \in 1..Len(inodes) :
        inodes[d].mode.dir =>
            \A e \in Range(List(d - 1)) : Allocated(e.inode)

(***************************************************************************)
(* C6                                                                      *)
(***************************************************************************)
\* C6: WriteFile(p, C, P), for p new or a regular file in an existing
\* directory, returns nil, and then ReadFile(p) returns exactly C and
\* Stat(p).Size is len(C).
C6_WriteReadRoundTrip ==
    (last.op = "WriteFile" /\ last.pdir /\ ~last.wasdir) =>
        /\ last.err = "nil"
        /\ LET r == ReadFile(M, last.path)
               st == Stat(M, last.path)
           IN /\ ~r.panic /\ r.err = "nil" /\ r.data = last.data
              /\ ~st.panic /\ st.err = "nil"
              /\ inodes[st.inode + 1].size = Len(last.data)

(***************************************************************************)
(* C7                                                                      *)
(***************************************************************************)
\* C7: Create(old) followed by a Rename(old, new) that returns nil, new
\* being another name in the same or in another existing directory:
\* Lstat(new) reports the inode Create opened for old, and Lstat(old) returns
\* not-exist.
C7_RenameKeepsInode ==
    (/\ Returned("Rename")
     /\ last.prev.op = "OpenFile" /\ last.prev.err = "nil"
     /\ last.prev.path = last.path
     /\ last.path2 # last.path
     /\ last.pdir /\ last.pdir2 /\ ~last.wasdir
     /\ PathSplit(last.path).file # <<>>
     /\ PathSplit(last.path2).file # <<>>) =>
        LET new == Lstat(M, last.path2) IN
        /\ ~new.panic /\ new.err = "nil" /\ new.inode = last.prev.n
        /\ NotExist(Lstat(M, last.path))

(***************************************************************************)
(* C10                                                                     *)
(***************************************************************************)
\* the directory part of p resolves and the directory has no entry with p's
\* last name
MissingName(p) ==
    LET sp == PathSplit(p)
        r == find(M, sp.dir)
    IN /\ ~r.panic /\ r.err = "nil"
       /\ LET fe == findEntry(M, NewFile(r.inode), sp.file) IN
          ~fe.panic /\ fe.err # "nil"

\* C10: Remove(p), when p's directory resolves and has no entry named p,
\* returns not-exist, changes nothing of the filesystem and emits no event.
C10_RemoveMissingNoEffect ==
    [][(last'.op = "Remove" /\ MissingName(last'.path)) =>
          /\ last'.err = "ErrNotExist"
          /\ UNCHANGED fsvars
          /\ last'.notes = <<>>]_vars

(***************************************************************************)
(* C3                                                                      *)
(***************************************************************************)
\* the number of blocks that hold size bytes
BlocksFor(size) == (size + blocksize - 1) \div blocksize

\* C3: after a call that returns nil, every inode lists exactly
\* ceil(size / 1024) blocks, and none when its size is 0.
C3_BlocksMatchSize ==
    last.err = "nil" =>
        \A i \in 1..Len(inodes) : Len(inodes[i].blocks) = BlocksFor(inodes[i].size)

(***************************************************************************)
(* C4                                                                      *)
(***************************************************************************)
\* the block indices all inodes list, one after the other
RECURSIVE Listed(_)
Listed(i) == IF i = 0 THEN <<>> ELSE Listed(i - 1) \o inodes[i].blocks

NoDuplicate(s) == \A i, j \in DOMAIN s : s[i] = s[j] => i = j

\* C4: no block index occurs twice in the block lists of the inodes, and no
\* block index an inode lists is on the block free-list.
C4_BlocksUnique ==
    /\ NoDuplicate(Listed(Len(inodes)))
    /\ Range(Listed(Len(inodes))) \cap Range(freeBlocks) = {}

\* a file of two blocks was written again: its blocks were freed and taken
\* from the free-list again
C4_Witness ==
    /\ Returned("WriteFile")
    /\ last.inode >= 1 /\ Len(last.iblocks) = 2
    /\ Len(inodes[last.inode + 1].blocks) = 2
    /\ \E i \in 1..Len(inodes) : i # last.inode + 1 /\ Len(inodes[i].blocks) > 0

(***************************************************************************)
(* C8                                                                      *)
(***************************************************************************)
\* the last call removed a file that is not a directory
RemovedFile == Returned("Remove") /\ last.inode >= 1 /\ ~last.wasdir

\* the inode and the blocks of the removed file are on the free-lists
Freed ==
    RemovedFile =>
        /\ last.inode \in Range(freeInodes)
        /\ Range(last.iblocks) \subseteq Range(freeBlocks)
        /\ inodes[last.inode + 1].blocks = <<>>

\* a WriteFile step that creates a file: the inode is the head of the inode
\* free-list, or a new one when that list is empty; the blocks the directory
\* and the file take are the heads of the block free-list in their order,
\* and new ones only when that list is used up
AllocatedInOrder ==
    (last'.op = "WriteFile" /\ last'.err = "nil" /\ last'.inode = -1) =>
        LET n == last'.n
            d == find(M, PathSplit(last'.path).dir).inode
            got == Drop(inodes'[d + 1].blocks, Len(inodes[d + 1].blocks))
                       \o inodes'[n + 1].blocks
            total == Len(got)
            A == freeBlocks \o [i \in 1..total |-> Len(blocks) + i - 1]
        IN /\ n = IF freeInodes # <<>> THEN Head(freeInodes) ELSE Len(inodes)
           /\ freeInodes # <<>> => freeInodes' = Tail(freeInodes)
           /\ Len(inodes') > Len(inodes) => freeInodes = <<>>
           /\ got = Take(A, total)
           /\ freeBlocks' = Drop(freeBlocks, Min(total, Len(freeBlocks)))
           /\ Len(blocks') > Len(blocks) => total > Len(freeBlocks)

\* C8: after Remove returns nil on a regular file that held N blocks, its
\* inode number is on the inode free-list, its N block indices are on the
\* block free-list and the inode lists no block; the following allocation of
\* an inode and of blocks takes the earliest-freed indices, and appends a new
\* index only when the free-list is empty.
C8_RemoveFreesFifoReuse == [][Freed' /\ AllocatedInOrder]_vars

\* a file of two blocks was removed and the file created next took the
\* freed inode and the freed blocks
C8_Witness ==
    /\ Returned("WriteFile") /\ last.inode = -1
    /\ last.prev.op = "Remove" /\ last.prev.err = "nil" /\ last.prev.nblocks = 2
    /\ Len(inodes[last.n + 1].blocks) = 2
    /\ freeInodes = <<>> /\ freeBlocks = <<>>
    /\ Len(blocks) = 3

(***************************************************************************)
(* C9                                                                      *)
(***************************************************************************)
\* C9: a Read, Write or Seek on a handle that Close has closed returns
\* ErrClosed and changes neither the offset of the handle nor the size and
\* the contents of the inode.
C9_ClosedRejects ==
    [][\A h \in DOMAIN files :
          (files[h].f.closed /\ last'.op \in {"Read", "Write", "Seek"} /\ last'.h = h) =>
              /\ last'.err = "ErrClosed"
              /\ files'[h].f.offset = files[h].f.offset
              /\ inodes' = inodes
              /\ blocks' = blocks]_vars

(***************************************************************************)
(* C11                                                                     *)
(***************************************************************************)
\* the bit b is set in the flag value v
FlagSet(v, b) == (v \div b) % 2 = 1

\* the bytes of the regular file of inode i
FileBytes(m, i) == ReadAll(m, NewFile(i), <<>>).data

\* C11: OpenFile with CREATE and EXCL set, and flags that check accepts, on a
\* path that names a regular file returns ErrExist and leaves the size and
\* the bytes of the file as they were, whatever the other bits, TRUNC included.
C11_ExclKeepsFile ==
    [][(/\ last'.op = "OpenFile"
        /\ FlagSet(last'.arg, CreateFlag) /\ FlagSet(last'.arg, ExclFlag)
        /\ check(last'.arg) = "nil"
        /\ last'.inode >= 0 /\ ~last'.wasdir)
       => /\ last'.err = "ErrExist"
          /\ inodes'[last'.inode + 1].size = inodes[last'.inode + 1].size
          /\ FileBytes(M', last'.inode) = FileBytes(M, last'.inode)]_vars

(***************************************************************************)
(* C12                                                                     *)
(***************************************************************************)
\* one of WRONLY, RDWR, APPEND, CREATE, TRUNC is set in the flag value v
WritingFlag(v) ==
    \E b \in {WrOnlyFlag, RdWrFlag, AppendFlag, CreateFlag, TruncFlag} : FlagSet(v, b)

\* C12: OpenFile with flags that check accepts, on a path that names a
\* directory, returns ErrIsDir when one of WRONLY, RDWR, APPEND, CREATE, TRUNC
\* is set, and returns a handle on the directory when none is set.
C12_DirectoryOpen ==
    (last.op = "OpenFile" /\ last.inode >= 0 /\ last.wasdir /\ check(last.arg) = "nil") =>
        IF WritingFlag(last.arg)
        THEN last.err = "ErrIsDir"
        ELSE last.err = "nil" /\ last.n = last.inode

(***************************************************************************)
(* C13                                                                     *)
(***************************************************************************)
\* C13: trunc(size) on a handle that may write, with size < 0 or size above
\* the size of the inode, returns ErrSize, leaves the size and the block list
\* of the inode as they were and frees no block; with 0 <= size <= the size of
\* the inode it returns nil and the inode has that size.
C13_TruncRange ==
    [][\A h \in DOMAIN files :
        (last'.op = "trunc" /\ last'.h = h /\ ~files[h].f.readOnly) =>
            LET i == files[h].f.inode + 1 IN
            IF last'.arg < 0 \/ last'.arg > inodes[i].size
            THEN /\ last'.err = "ErrSize"
                 /\ inodes'[i].size = inodes[i].size
                 /\ inodes'[i].blocks = inodes[i].blocks
                 /\ freeBlocks' = freeBlocks
            ELSE /\ last'.err = "nil"
                 /\ inodes'[i].size = last'.arg]_vars

(***************************************************************************)
(* C14                                                                     *)
(***************************************************************************)
\* C14: a Seek that returns an error leaves the offset of the handle as it
\* was; a whence that is none of SeekStart, SeekCurrent, SeekEnd returns
\* ErrWhence whatever the offset argument, and a position below 0 computed
\* under one of the three returns ErrInvalidSeek.
C14_SeekErrorKeepsOffset ==
    [][\A h \in DOMAIN files :
        (last'.op = "Seek" /\ last'.h = h /\ ~files[h].isdir) =>
            /\ last'.err # "nil" => files'[h].f.offset = files[h].f.offset
            /\ last'.arg \notin {SeekStart, SeekCurrent, SeekEnd} => last'.err = "ErrWhence"
            /\ (last'.arg \in {SeekStart, SeekCurrent, SeekEnd} /\ last'.err # "nil")
                    => last'.err = "ErrInvalidSeek"]_vars

(***************************************************************************)
(* C15                                                                     *)
(***************************************************************************)
\* the call changed neither an inode nor a block nor the offset of handle h
\* and made no notify call
NothingDone(h) ==
    /\ inodes' = inodes
    /\ blocks' = blocks
    /\ files'[h].f.offset = files[h].f.offset
    /\ last'.notes = <<>>

\* C15: on a handle opened with access mode RDONLY every Write returns
\* ErrReadOnly, and on a handle opened with WRONLY every Read returns
\* ErrWriteOnly; neither changes the inode, the blocks or the offset of the
\* handle, and neither emits an event.
C15_AccessModeRejects ==
    [][\A h \in DOMAIN files :
        /\ (last'.op = "Write" /\ last'.h = h /\ ~files[h].isdir
                /\ ~FlagSet(files[h].flag, WrOnlyFlag) /\ ~FlagSet(files[h].flag, RdWrFlag))
            => last'.err = "ErrReadOnly" /\ NothingDone(h)
        /\ (last'.op = "Read" /\ last'.h = h /\ ~files[h].isdir
                /\ FlagSet(files[h].flag, WrOnlyFlag))
            => last'.err = "ErrWriteOnly" /\ NothingDone(h)]_vars

\* a Write on a read-only handle whose offset a Read has moved, on a file
\* with bytes
C15_Witness ==
    /\ last.op = "Write" /\ last.err = "ErrReadOnly"
    /\ last.prev.op = "Read" /\ last.prev.err = "nil"
    /\ files[last.h].flag = RdOnlyFlag
    /\ files[last.h].f.offset > 0
    /\ inodes[last.inode + 1].size > 0

(***************************************************************************)
(* C16                                                                     *)
(***************************************************************************)
\* the names of the entries of the directory from the cursor of f on
Remaining(m, f) ==
    LET es == Entries(m, f, MaxList) IN [i \in DOMAIN es |-> es[i].name]

\* C16: Readdir(n) and Readdirnames(n) with n <= 0 return every entry from the
\* cursor on, in the order of the directory, and a nil error, also when no
\* entry remains.
C16_ReadAllEntries ==
    [][\A h \in DOMAIN files :
        (last'.op \in {"Readdir", "Readdirnames"} /\ last'.h = h /\ last'.arg <= 0) =>
            /\ last'.err = "nil"
            /\ last'.names = Remaining(M, files[h].f)]_vars

(***************************************************************************)
(* C17                                                                     *)
(***************************************************************************)
\* C17: Readdir(n) and Readdirnames(n) with n > 0 return the first
\* min(n, remaining) entries from the cursor on, leave the cursor behind the
\* last entry returned, and return no entry only together with an error.
C17_ReadSomeEntries ==
    [][\A h \in DOMAIN files :
        (last'.op \in {"Readdir", "Readdirnames"} /\ last'.h = h /\ last'.arg > 0) =>
            LET rem == Remaining(M, files[h].f)
                k == Min(last'.arg, Len(rem))
            IN /\ last'.names = Take(rem, k)
               /\ Remaining(M', files'[h].f) = Drop(rem, k)
               /\ last'.names = <<>> => last'.err # "nil"]_vars

(***************************************************************************)
(* C18                                                                     *)
(***************************************************************************)
\* one of APPEND, CREATE, EXCL, TRUNC is set in the flag value v
ExtraFlag(v) ==
    \E b \in {AppendFlag, CreateFlag, ExclFlag, TruncFlag} : FlagSet(v, b)

\* C18: for every value made of an access mode and of any of APPEND, CREATE,
\* EXCL, TRUNC, and for every value with both WRONLY and RDWR set, check
\* returns ErrInvalidFlags exactly when the access mode is RDONLY and one of
\* the four other bits is set, or both WRONLY and RDWR are set; it returns nil
\* for every other value.
C18_CheckRejects ==
    last.op = "check" =>
        IF \/ FlagSet(last.arg, WrOnlyFlag) /\ FlagSet(last.arg, RdWrFlag)
           \/ (/\ ~FlagSet(last.arg, WrOnlyFlag) /\ ~FlagSet(last.arg, RdWrFlag)
               /\ ExtraFlag(last.arg))
        THEN last.err = "ErrInvalidFlags"
        ELSE last.err = "nil"

\* check has refused RDONLY with EXCL
C18_Witness ==
    last.op = "check" /\ last.arg = RdOnlyFlag + ExclFlag /\ last.err = "ErrInvalidFlags"

(***************************************************************************)
(* C19                                                                     *)
(***************************************************************************)
\* the memfs without its watchers
Unwatched == [M EXCEPT !.watchers = {}]

\* the call c made on the memfs without its watchers
Replay(c) ==
    CASE c.op = "OpenFile" ->
            LET r == OpenFile(Unwatched, c.path, c.arg, FullFilePerm)
            IN [m |-> r.m, err |-> r.err]
      [] c.op = "Mkdir" -> Mkdir(Unwatched, c.path, FullDirPerm)
      [] c.op = "Write" ->
            LET r == Write(Unwatched, files[c.h].f, c.data)
            IN [m |-> r.m, err |-> r.err]
      [] c.op = "Rename" -> Rename(Unwatched, c.path, c.path2)
      [] c.op = "Remove" -> Remove(Unwatched, c.path)

\* the call of this step ends as it ends without watchers and leaves the
\* same inodes, blocks and free-lists
SameAsUnwatched ==
    LET r == Replay(last') IN
    IF r.m.panic THEN last'.err = "panic"
    ELSE /\ last'.err = r.err
         /\ inodes' = r.m.inodes
         /\ blocks' = r.m.blocks
         /\ freeInodes' = r.m.freeInodes
         /\ freeBlocks' = r.m.freeBlocks

\* the events of the notify calls of call c for the watch e, in their order
RECURSIVE EventsFor(_, _)
EventsFor(e, notes) ==
    IF notes = <<>> THEN <<>>
    ELSE (IF Head(notes).inode = e.inode
          THEN <<[Type |-> Head(notes).Type, Path |-> PathJoin(e.path, Head(notes).name)]>>
          ELSE <<>>) \o EventsFor(e, Tail(notes))

IsFull(w) == Len(chans[w].q) >= chans[w].cap

MutatingOps == {"OpenFile", "Mkdir", "Write", "Rename", "Remove"}

\* C19: when a watcher of a directory has a full channel that nobody reads,
\* an OpenFile, Mkdir, Write, Rename or Remove call returns as it does
\* without watchers and changes the filesystem in the same way; the full
\* channel holds what it held, and every other watcher of the directory gets
\* the events of the call for as long as its channel has room.
C19_FullChannelDrops ==
    [][last'.op \in MutatingOps =>
        \A e1 \in watchers : IsFull(e1.w) =>
            /\ SameAsUnwatched
            /\ chans'[e1.w].q = chans[e1.w].q
            /\ \A e2 \in watchers : (e2.inode = e1.inode /\ ~IsFull(e2.w)) =>
                    chans'[e2.w].q =
                        Take(chans[e2.w].q \o EventsFor(e2, last'.notes),
                             Min(chans[e2.w].cap,
                                 Len(chans[e2.w].q \o EventsFor(e2, last'.notes))))]_vars

\* a call has made a notify call for the root while one watcher of the root
\* had a full channel of one event and another still holds less than it can:
\* the first holds one event, the second both
C19_Witness ==
    /\ last.op \in MutatingOps /\ last.err = "nil" /\ last.notes # <<>>
    /\ \E e1 \in watchers, e2 \in watchers :
          /\ e1.inode = 0 /\ e2.inode = 0 /\ e1.w # e2.w
          /\ chans[e1.w].cap = 1 /\ Len(chans[e1.w].q) = 1
          /\ chans[e2.w].cap = 2 /\ Len(chans[e2.w].q) = 2
          /\ chans[e2.w].q[1] = chans[e1.w].q[1]
          /\ chans[e2.w].q[2].Path # chans[e1.w].q[1].Path

(***************************************************************************)
(* C20                                                                     *)
(***************************************************************************)
\* the directory a path puts its last name in, -1 when it resolves to none
ParentOf(p) == Resolve(PathSplit(p).dir)

Event(t, p) == [Type |-> t, Path |-> p]

\* the events the watch e is to get for the call c that returned nil
Expected(e, c) ==
    CASE c.op \in {"OpenFile", "Mkdir"} ->
            IF c.inode = -1 /\ ParentOf(c.path) = e.inode
            THEN <<Event("Create", c.path)>> ELSE <<>>
      [] c.op = "Write" ->
            IF ParentOf(c.path) = e.inode THEN <<Event("Modify", c.path)>> ELSE <<>>
      [] c.op = "Rename" ->
            IF ParentOf(c.path) = e.inode /\ ParentOf(c.path2) = e.inode
            THEN <<Event("Create", c.path2), Event("Rename", c.path)>> ELSE <<>>
      [] c.op = "Remove" ->
            IF ParentOf(c.path) = e.inode THEN <<Event("Remove", c.path)>> ELSE <<>>
      [] OTHER -> <<>>

\* the watcher of e watches the directory of e and nothing else, before and
\* after the call
OnlyWatch(e) ==
    /\ \A x \in watchers : x.w = e.w => x = e
    /\ \A x \in watchers' : x.w = e.w => x = e

\* C20: a watcher of one directory whose channel has room gets, for every call
\* that returns nil, these events and no other, behind the events it holds:
\* Create for a new entry of the directory, Modify for a Write on a file of
\* the directory, Create of the new name and then Rename of the old name for
\* a Rename inside the directory, Remove for a Remove; each with the path of
\* the entry.
C20_EventsInOrder ==
    [][last'.err = "nil" =>
        \A e \in watchers :
            (IsDir(M, e.inode) /\ OnlyWatch(e)
                /\ Len(chans[e.w].q) + Len(Expected(e, last')) < chans[e.w].cap)
            => chans'[e.w].q = chans[e.w].q \o Expected(e, last')]_vars

(***************************************************************************)
(* C21                                                                     *)
(***************************************************************************)
\* C21: once Close has closed the channel of a watcher, the watcher is
\* registered under no inode, whatever became of the paths it watched, so that
\* no later call sends on the closed channel.
C21_CloseRemovesWatches ==
    \A w \in DOMAIN chans : chans[w].closed => ~\E e \in watchers : e.w = w

\* the place of a lock in the order: the handle of a file before its inode
\* before the filesystem; the lock of a watcher comes before them all
LockRank(l) ==
    CASE l.kind = "watcher" -> 0
      [] l.kind = "file" -> 1
      [] l.kind = "inode" -> 2
      [] l.kind = "fs" -> 3

\* a goroutine waits for a mutex that is held
Waiting(t) ==
    /\ threads[t].todo # <<>>
    /\ Head(threads[t].todo).do = "Lock"
    /\ Holder(Head(threads[t].todo).lock) # {}

\* C22: a goroutine takes locks only in the order file handle, inode,
\* filesystem, never a second lock of a level it holds, and the goroutines never
\* all wait for one another: whenever one waits, another can take a step.
C22_LockOrderNoDeadlock ==
    /\ \A t \in Threads : \A a, b \in DOMAIN threads[t].held :
          a < b => LockRank(threads[t].held[a]) < LockRank(threads[t].held[b])
    /\ (\E t \in Threads : Waiting(t)) =>
          \E t \in Threads : threads[t].todo # <<>> /\ ~Waiting(t)

\* one goroutine holds a handle, the inode and the filesystem at once while the
\* other waits for the inode
C22_Witness ==
    \E t, u \in Threads :
        /\ Len(threads[t].held) = 3
        /\ threads[t].held[1].kind = "file"
        /\ Waiting(u)
        /\ Head(threads[u].todo).lock = InodeLock(LockFile)


\* C23: two goroutines that together create two different names, new in one
\* directory, both return without error; afterwards the two names resolve to
\* two different inodes, and the directory lists the entries it had before
\* followed by the two names.
C23_ConcurrentCreates ==
    (/\ last.op = "go"
     /\ last.arg = 1
     /\ last.inode >= 0
     /\ last.pdir
     /\ \A t \in Threads : threads[t].pc = "done")
    => /\ ~panicked
       /\ \A t \in Threads : threads[t].err = "nil"
       /\ Resolve(last.path) >= 0
       /\ Resolve(last.path2) >= 0
       /\ Resolve(last.path) # Resolve(last.path2)
       /\ Names(last.inode) \in
            {last.names \o <<PathBase(last.path), PathBase(last.path2)>>,
             last.names \o <<PathBase(last.path2), PathBase(last.path)>>}


\* the path names a symlink whose target names an inode that is no symlink
LinkTo(p, t) ==
    /\ Resolve(p) >= 0
    /\ inodes[Resolve(p) + 1].mode.symlink
    /\ t = Resolve(inodes[Resolve(p) + 1].link)
    /\ t >= 0
    /\ ~inodes[t + 1].mode.symlink

Matched(err) ==
    /\ last.op = "Walk"
    /\ last.werr = err
    /\ last.path2 \in Range(last.names)
    /\ Resolve(last.path2) >= 0

\* q is a name of the directory of p that sorts after p
LaterSibling(p, q) ==
    /\ PathDir(q) = PathDir(p)
    /\ StrLess(PathBase(p), PathBase(q))

\* C25: when the walk function returns ErrSkipDir at a file that is no
\* directory, Walk visits none of the names of the same directory that sort
\* after it, and returns nil.
C25_SkipDirOnFile ==
    (Matched("ErrSkipDir") /\ ~inodes[Resolve(last.path2) + 1].mode.dir)
    => /\ last.err = "nil"
       /\ \A q \in WalkPaths : LaterSibling(last.path2, q) => q \notin Range(last.names)

\* q lies below the directory p
Below(p, q) == Len(q) > Len(p) + 1 /\ SubSeq(q, 1, Len(p) + 1) = p \o <<Slash>>

\* C26: when the walk function returns ErrSkipDir at a directory, Walk visits
\* nothing below that directory, does visit the names of the same directory
\* that sort after it, and returns nil; when the walk function returns another
\* error, the path it returned it at is the last one visited and Walk returns
\* that error.
C26_SkipDirPrunes ==
    /\ (Matched("ErrSkipDir") /\ inodes[Resolve(last.path2) + 1].mode.dir)
       => /\ last.err = "nil"
          /\ \A q \in WalkPaths : Below(last.path2, q) => q \notin Range(last.names)
          /\ \A q \in WalkPaths :
                (LaterSibling(last.path2, q) /\ Resolve(q) >= 0 /\ last.path2 # last.path)
                => q \in Range(last.names)
    /\ Matched("ErrNotExist")
       => /\ last.err = "ErrNotExist"
          /\ last.names[Len(last.names)] = last.path2

\* a directory with a file in it was pruned and the walk went on to the name
\* after it
C26_Witness ==
    /\ Matched("ErrSkipDir")
    /\ inodes[Resolve(last.path2) + 1].mode.dir
    /\ last.err = "nil"
    /\ \E q \in WalkPaths : Below(last.path2, q) /\ Resolve(q) >= 0
    /\ \E q \in WalkPaths : LaterSibling(last.path2, q) /\ q \in Range(last.names)

\* the paths of the tree at or below root
Tree(root) ==
    {q \in WalkPaths \cup {PRoot} :
        Resolve(q) >= 0 /\ (q = root \/ root = PRoot \/ Below(root, q))}

\* C27: a Walk whose walk function returns nil everywhere visits every file
\* and directory at or below its root once, a directory before the names in it,
\* and the names of one directory in the order of their bytes.
C27_WalkOrder ==
    (last.op = "Walk" /\ last.werr = "nil" /\ Resolve(last.path) >= 0)
    => /\ last.err = "nil"
       /\ NoDuplicate(last.names)
       /\ Range(last.names) = Tree(last.path)
       /\ \A j \in 2..Len(last.names) :
             \E i \in 1..(j - 1) : last.names[i] = PathDir(last.names[j])
       /\ \A i, j \in DOMAIN last.names :
             (i < j /\ PathDir(last.names[i]) = PathDir(last.names[j])
                    /\ last.names[i] # PRoot)
             => StrLess(PathBase(last.names[i]), PathBase(last.names[j]))


\* the path and the paths of the directories above it, the root left out
RECURSIVE Ancestors(_)
Ancestors(p) == IF PathDir(p) = p THEN {} ELSE {p} \cup Ancestors(PathDir(p))

\* Stat of the path in the memfs m finds a directory
StatIsDir(m, p) ==
    Bind(Stat(m, p), LAMBDA st : ~st.panic /\ st.err = "nil" /\ IsDir(m, st.inode))

\* C28: when MkdirAll has returned nil, Stat of its path and of every
\* directory above it reports a directory; the same MkdirAll made next
\* returns nil and changes nothing in the filesystem: no inode is taken and no
\* directory grows.
C28_MkdirAllIdempotent ==
    [][/\ (last'.op = "MkdirAll" /\ last'.err = "nil")
          => \A q \in Ancestors(last'.path) : StatIsDir(M', q)
       /\ (/\ last.op = "MkdirAll"
           /\ last.err = "nil"
           /\ last'.op = "MkdirAll"
           /\ last'.path = last.path)
          => /\ last'.err = "nil"
             /\ fsvars' = fsvars]_vars

\* MkdirAll of "/a/b/c" has made three directories, and has been called again
C28_Witness ==
    /\ last.op = "MkdirAll"
    /\ last.path = PABC
    /\ last.err = "nil"
    /\ last.prev.op = "MkdirAll"
    /\ last.prev.path = PABC
    /\ last.prev.err = "nil"
    /\ Len(inodes) = 4
    /\ \A q \in {PA, PAB, PABC} : StatIsDir(M, q)


\* the names of the entries of directory inode n in the memfs m
NamesIn(m, n) ==
    Bind(Entries(m, NewFile(n), MaxList), LAMBDA es : [i \in DOMAIN es |-> es[i].name])

\* the sequence s without its elements equal to x
Without(s, x) == SelectSeq(s, LAMBDA y : y # x)

\* C29: when Remove unlinks a name that its directory lists once, at whatever
\* place, the directory lists afterwards the other names, each as often and in
\* the order as before, and its size is smaller by 16 plus the length of the
\* name.
C29_UnlinkAnyPosition ==
    [][\A d \in 0..(Len(inodes) - 1) :
         (/\ last'.op = "Remove"
          /\ last'.err = "nil"
          /\ d = Resolve(PathDir(last'.path))
          /\ inodes[d + 1].mode.dir
          /\ Len(NamesIn(M, d)) = Len(Without(NamesIn(M, d), PathBase(last'.path))) + 1)
         => /\ NamesIn(M', d) = Without(NamesIn(M, d), PathBase(last'.path))
            /\ inodes'[d + 1].size = inodes[d + 1].size - (16 + Len(PathBase(last'.path)))]_vars


\* the bytes a Read of n bytes returns at offset off of inode i in the memfs m
BytesAt(m, i, off, n) == Read(m, [NewFile(i) EXCEPT !.offset = off], n).data

\* C30: a Write of bytes through a handle whose offset lies beyond the end of
\* the file ends without a fault and returns nil; afterwards the file has a
\* block for the ordinal of that offset, and a read at that offset returns the
\* bytes written.
C30_WritePastEnd ==
    [][\A h \in DOMAIN files :
         (/\ last'.op = "Write"
          /\ last'.h = h
          /\ ~files[h].isdir
          /\ ~files[h].f.readOnly
          /\ last'.data # <<>>
          /\ files[h].f.offset > inodes[files[h].f.inode + 1].size)
         => /\ ~panicked'
            /\ last'.err = "nil"
            /\ Len(inodes'[files[h].f.inode + 1].blocks)
                  >= GoDiv(files[h].f.offset, blocksize) + 1
            /\ BytesAt(M', files[h].f.inode, files[h].f.offset, Len(last'.data))
                  = last'.data]_vars


\* the next step of goroutine t is an access to a field of an inode
Accessing(t) ==
    /\ threads[t].todo # <<>>
    /\ Head(threads[t].todo).do \in {"Read", "Write"}

\* C31: a goroutine reads or writes the size, the mode or the block list of an
\* inode only while it holds the mutex of that inode, so that two goroutines
\* are never both about to access the fields of one inode, one of them to
\* write.
C31_InodeFieldsLocked ==
    /\ \A t \in Threads : Accessing(t) => t \in Holder(Head(threads[t].todo).lock)
    /\ \A t, u \in Threads :
          (/\ t # u
           /\ Accessing(t)
           /\ Accessing(u)
           /\ Head(threads[t].todo).lock = Head(threads[u].todo).lock)
          => Head(threads[t].todo).do = "Read" /\ Head(threads[u].todo).do = "Read"


\* C32: MkdirAll returns, with nil or with an error, for every path: absolute,
\* relative, or with a file where a directory is needed; its nested calls come
\* to an end and the process does not die of them.
C32_MkdirAllTerminates ==
    last.op = "MkdirAll" => ~panicked /\ last.err # "panic"


\* no directory of the memfs m lists a name twice
NoDuplicateNames(m) ==
    \A d \in 0..(Len(m.inodes) - 1) :
        (m.inodes[d + 1].mode.dir /\ d \notin Range(m.freeInodes))
        => NoDuplicate(NamesIn(m, d))

\* C33: a call of OpenFile, Mkdir, Rename or Remove that returns nil, made
\* when no directory lists a name twice, leaves no directory that lists a name
\* twice; a Rename to a name its directory holds already is such a call.
C33_NoDuplicateNames ==
    [][(/\ NoDuplicateNames(M)
        /\ last'.op \in {"OpenFile", "Mkdir", "Rename", "Remove"}
        /\ last'.err = "nil"
        /\ ~panicked')
       => NoDuplicateNames(M')]_vars


\* the size Stat reports for inode i of the memfs m
SizeOf(m, i) == m.inodes[i + 1].size

Larger(a, b) == IF a > b THEN a ELSE b

\* C34: a Write that returns nil after writing n bytes at the offset o of its
\* handle, on a file of size s, leaves the file with size max(s, o + n); and
\* the size is the number of bytes that reading the whole file returns.
C34_WriteSize ==
    [][\A h \in DOMAIN files :
         (/\ last'.op = "Write"
          /\ last'.h = h
          /\ ~files[h].isdir
          /\ last'.err = "nil"
          /\ ~panicked')
         => /\ SizeOf(M', files[h].f.inode)
                 = Larger(SizeOf(M, files[h].f.inode), files[h].f.offset + last'.n)
            /\ Len(FileBytes(M', files[h].f.inode)) = SizeOf(M', files[h].f.inode)]_vars


\* C35: Rename of a name that its directory, which exists, does not hold
\* returns an error, leaves every directory as it was and makes no call of
\* notify, whether the new name is of the same directory or of another.
C35_RenameMissingFails ==
    [][(/\ last'.op = "Rename"
        /\ last'.pdir
        /\ last'.inode = -1)
       => /\ ~panicked'
          /\ last'.err # "nil"
          /\ inodes' = inodes
          /\ blocks' = blocks
          /\ last'.notes = <<>>]_vars


\* C36: a watcher that watches one directory by the path P, the root or a
\* directory below it, and whose channel has room gets, for a Write that
\* returns nil through a handle opened on the file n of that directory, one
\* Modify event whose path is P joined with n, the path the Create event of
\* the file carries.
C36_ModifyPath ==
    [][\A e \in watchers :
        (/\ last'.op = "Write"
         /\ last'.err = "nil"
         /\ ~panicked'
         /\ OnlyWatch(e)
         /\ IsDir(M, e.inode)
         /\ Resolve(e.path) = e.inode
         /\ Resolve(last'.path) = last'.inode
         /\ ParentOf(last'.path) = e.inode
         /\ Len(chans[e.w].q) < chans[e.w].cap)
        => chans'[e.w].q
             = Append(chans[e.w].q,
                      Event("Modify", PathJoin(e.path, PathBase(last'.path))))]_vars


\* what Stat reports of the type of the file at p: is it a directory, is it a
\* symbolic link; and no type when Stat fails
StatType(m, p) ==
    Bind(Stat(m, p), LAMBDA r :
    IF r.panic \/ r.err # "nil" THEN [err |-> TRUE, dir |-> FALSE, symlink |-> FALSE]
    ELSE [err |-> FALSE, dir |-> Ino(m, r.inode).mode.dir,
          symlink |-> Ino(m, r.inode).mode.symlink])

\* C37: a Chmod that returns nil and whose mode holds permission bits only
\* changes nothing but the permission bits: Stat reports the file a directory
\* or a symbolic link after the call exactly when it did before, the
\* permission bits are those of the call, and every path resolves to the
\* inode it resolved to before.
C37_ChmodKeepsType ==
    [][(/\ last'.op = "Chmod"
        /\ last'.err = "nil"
        /\ ~panicked'
        /\ ~last'.mode.dir
        /\ ~last'.mode.symlink)
       => /\ StatType(M', last'.path) = StatType(M, last'.path)
          /\ inodes'[last'.inode + 1].mode.perm = last'.mode.perm
          /\ \A q \in NSPaths :
                Resolve(q) >= 0
                    => Bind(Lstat(M', q), LAMBDA r :
                            ~r.panic /\ r.err = "nil" /\ r.inode = Resolve(q))]_vars


\* C38: no watch is registered under an inode number that is on the free list
\* of inodes, so that a file or directory made later under the number of a
\* removed directory sends nothing to the watcher of that directory.
C38_NoWatchOnFreeInode ==
    \A e \in watchers : e.inode \notin Range(freeInodes)


\* C39: after a Rename that returns nil and moves a file from one directory
\* to a free name of another, the parent of the inode of the file, which is
\* the directory memFile.Write notifies the watchers of, is the directory the
\* file was moved to, and the new path resolves to the file.
C39_ParentFollowsRename ==
    [][(/\ last'.op = "Rename"
        /\ last'.err = "nil"
        /\ ~panicked'
        /\ last'.inode >= 0
        /\ ~last'.wasdir
        /\ last'.pdir
        /\ last'.pdir2
        /\ PathSplit(last'.path2).file # <<>>
        /\ ParentOf(last'.path) # ParentOf(last'.path2)
        /\ Resolve(last'.path2) = -1)
       => /\ Bind(Lstat(M', last'.path2), LAMBDA r :
                  ~r.panic /\ r.err = "nil" /\ r.inode = last'.inode)
          /\ inodes'[last'.inode + 1].parent = ParentOf(last'.path2)]_vars


\* the calls of notify the last call made for an inode the watcher w was
\* registered under
Notified(w) ==
    {k \in DOMAIN last'.notes :
        \E e \in watchers : e.w = w /\ e.inode = last'.notes[k].inode}

\* C40: a watcher is registered at most once under a directory, however often
\* and under whatever spelling of the path it called Watch for it: every call
\* of notify for the directory puts one event on its channel, as long as the
\* channel has room, and after one Remove that returns nil the watcher is no
\* longer registered under the directory the path names.
C40_WatchOnceRemoveOnce ==
    [][~panicked' =>
        /\ \A e1 \in watchers', e2 \in watchers' :
              (e1.w = e2.w /\ e1.inode = e2.inode) => e1 = e2
        /\ \A w \in DOMAIN chans :
              Len(chans[w].q) + Len(last'.notes) <= chans[w].cap
                  => Len(chans'[w].q) = Len(chans[w].q) + Cardinality(Notified(w))
        /\ (last'.op = "WatcherRemove" /\ last'.err = "nil")
              => ~\E e \in watchers' : e.w = last'.h /\ e.inode = Resolve(last'.path)]_vars

\* the watcher watched "/a" under both spellings and got the Create event of
\* "/a/b" once; Remove("/a") took the watch away and the Write that followed
\* sent it nothing
C40_Witness ==
    /\ last.op = "Write"
    /\ last.err = "nil"
    /\ last.notes # <<>>
    /\ last.prev.op = "WatcherRemove"
    /\ last.prev.path = PA
    /\ last.prev.err = "nil"
    /\ last.prev.n = 2
    /\ chans[1].paths = {PASlash}
    /\ watchers = {}
    /\ Len(chans[1].q) = 1
    /\ chans[1].q[1].Type = "Create"


====
